---- MODULE Spec2Model ----
(***************************************************************************)
(* The object manager of a RAMCloud master (src/src/ObjectManager.cc):     *)
(* the hash index from keys to log references, the client operations       *)
(* (writeObject, readObject, removeObject), recovery replay                *)
(* (replaySegment), the log cleaner's callbacks (relocateObject,           *)
(* relocateTombstone), the RemoveTombstonePoller and removeOrphanedObjects.*)
(*                                                                         *)
(* Every handler takes the HashTableBucketLock of its key (or bucket) for  *)
(* its whole body, so one handler body on one key is one action; a         *)
(* replaySegment call takes the lock once per entry and is one action per  *)
(* entry between its start and its return; removeOrphanedObjects and the   *)
(* poller take the lock once per bucket and are one action per bucket.     *)
(* The log, the side log, the relocator, the tablet manager and the        *)
(* version allocator are collaborators whose code is not in                *)
(* ObjectManager.cc; they are modelled by what ObjectManager.cc uses of    *)
(* them.  Telemetry (read/write counts, metrics, timestamps) is left out.  *)
(***************************************************************************)
EXTENDS Integers, Sequences, FiniteSets, TLC

\* ------------------------------------------------------------------ bounds
MaxLog == 4
MaxSeg == 4
MaxVersion == 3
MaxReplay == 2
MaxSafe == 4
SegCap == 2
NumBuckets == 2
\* Locks of hashTableBucketLocks.
NumLocks == 2

\* --------------------------------------------------------------- constants
VERSION_NONEXISTENT == 0

Keys == {"a", "b"}
Values == {"x", "y"}
NoValue == "-"
Unset == 0 - 1

\* Key.tableId: the table, hence the tablet, a key belongs to.
TableOf(k) == IF k = "a" THEN 1 ELSE 2
Tables == {TableOf(k) : k \in Keys}

\* The hash table bucket of a key.
BucketOf(k) == IF k = "a" THEN 0 ELSE 1 % NumBuckets
KeysIn(b) == {k \in Keys : BucketOf(k) = b}

TabletStates == {"ABSENT", "NORMAL", "RECOVERING"}

\* RejectRules; isNull stands for a NULL pointer.
Rules(n, g, d, e, le, ne) ==
    [isNull |-> n, givenVersion |-> g, doesntExist |-> d, exists |-> e,
     versionLeGiven |-> le, versionNeGiven |-> ne]
NullRules == Rules(TRUE, 0, FALSE, FALSE, FALSE, FALSE)
\* A variant of line 347 whose default rules reject an absent object.
RejectingDefault == Rules(FALSE, 0, TRUE, FALSE, FALSE, FALSE)
\* static RejectRules defaultRejectRules: zero-initialised.
defaultRejectRules == Rules(FALSE, 0, FALSE, FALSE, FALSE, FALSE)
ClientRules ==
    {NullRules,
     Rules(FALSE, 0, TRUE, FALSE, FALSE, FALSE),
     Rules(FALSE, 0, FALSE, TRUE, FALSE, FALSE),
     Rules(FALSE, 1, FALSE, FALSE, TRUE, FALSE),
     Rules(FALSE, 1, FALSE, FALSE, FALSE, TRUE)}

Max(x, y) == IF x >= y THEN x ELSE y

VARIABLES
    log,            \* every entry ever appended, by reference (its position)
    index,          \* objectMap: key -> reference, 0 when the key has no entry
    safeVersion,    \* segmentManager's safeVersion
    tablets,        \* tabletManager: table -> state
    head,           \* id of the log's head segment
    nsegs,          \* segment ids allocated so far
    gone,           \* segments the cleaner has reclaimed
    synced,         \* length of the log prefix the last sync made durable
    anyWrites,
    replayActive,   \* side log segment of the running replaySegment, 0 if none
    replaySegmentReturnCount,
    currentBucket, passes, lastReplaySegmentCount,  \* RemoveTombstonePoller
    cleanSeg,       \* segment the cleaner is processing, 0 if none
    cleanTodo,      \* references of cleanSeg not yet handed to relocate
    survSeg,        \* survivor segment of the cleaning pass, 0 if none yet
    orphanBucket,   \* next bucket of removeOrphanedObjects, 0 between calls
    aborted,        \* the process died (failed assertion, wild pointer)
    maxIssued,      \* history: key -> highest version a write returned
    allocated,      \* history: highest version allocateVersion handed out
    removedMax,     \* history: highest version a remove deleted
    expect,         \* history: key -> what the last successful write or
                    \*          remove of the key left
    best,           \* history: key -> strongest entry replay has seen
    hashTableBucketLocks,   \* lock -> the thread holding it, NoThread if free
    threads         \* thread -> how far its writeObject or removeObject
                    \*           call has come, and the call's locals

vars == <<log, index, safeVersion, tablets, head, nsegs, gone, synced,
          anyWrites, replayActive, replaySegmentReturnCount, currentBucket,
          passes, lastReplaySegmentCount, cleanSeg, cleanTodo, survSeg,
          orphanBucket, aborted, maxIssued, allocated, removedMax, expect,
          best, hashTableBucketLocks, threads>>
lockVars == <<hashTableBucketLocks, threads>>

\* ------------------------------------------------------------- log entries
Entry(t, k, n, v, s, ts) ==
    [type |-> t, key |-> k, version |-> n, value |-> v, seg |-> s,
     tseg |-> ts, freed |-> FALSE]
\* Object(key, value, version, timestamp)
ObjectEntry(k, n, v, s) == Entry("OBJ", k, n, v, s, 0)
\* ObjectTombstone(object, segmentId, timestamp)
TombstoneEntry(k, n, ts, s) == Entry("TOMB", k, n, NoValue, s, ts)
\* ObjectSafeVersion
SafeVersionEntry(n, s) == Entry("SAFEVER", "", n, NoValue, s, 0)

\* log.segmentExists(id)
SegmentExists(s) == s \in 1..nsegs /\ s \notin gone
\* log.getSegmentId(reference)
SegmentIdOf(r) == log[r].seg
\* log.free(reference)
Free(lg, r) == [lg EXCEPT ![r].freed = TRUE]

\* What a client operation hands back: its status, *outVersion and, for a
\* read, the bytes appended to outBuffer.
Ret(s, n, v) == [status |-> s, version |-> n, value |-> v]

\* What the last successful write or remove of a key left: nothing yet, an
\* object (its value and version), or its removal.
NothingYet == [kind |-> "none", value |-> NoValue, version |-> 0]
Wrote(v, n) == [kind |-> "object", value |-> v, version |-> n]
Removed == [kind |-> "removed", value |-> NoValue, version |-> 0]

\* The strongest entry replay has seen for a key.
NoEntry == [type |-> "NONE", version |-> 0]

\* The threads of the master that serve clients' requests.
Threads == {"t1", "t2"}
NoThread == "none"
\* HashTableBucketLock(objectManager, key): the lock that guards the key's
\* bucket.
LockOf(k) == BucketOf(k) % NumLocks
\* A thread that is in no call: program counter and the call's locals.
NoCall ==
    [pc |-> "idle", kind |-> "none", key |-> "", value |-> NoValue,
     version |-> 0, ref |-> 0,
     cur |-> [found |-> FALSE, type |-> "INVALID", version |-> 0,
              value |-> NoValue, ref |-> 0]]

\* The state after construction (lines 66-89), with the tablets the tablet
\* manager holds.
InitWith(tb) ==
    /\ log = <<>>
    /\ index = [k \in Keys |-> 0]
    /\ safeVersion = 1
    /\ tablets = tb
    /\ head = 1
    /\ nsegs = 1
    /\ gone = {}
    /\ synced = 0
    /\ anyWrites = FALSE
    /\ replayActive = 0
    /\ replaySegmentReturnCount = 0
    /\ currentBucket = 0
    /\ passes = 0
    /\ lastReplaySegmentCount = 0
    /\ cleanSeg = 0
    /\ cleanTodo = {}
    /\ survSeg = 0
    /\ orphanBucket = 0
    /\ aborted = FALSE
    /\ maxIssued = [k \in Keys |-> 0]
    /\ allocated = 0
    /\ removedMax = 0
    /\ expect = [k \in Keys |-> NothingYet]
    /\ best = [k \in Keys |-> NoEntry]
    /\ hashTableBucketLocks = [l \in 0..(NumLocks - 1) |-> NoThread]
    /\ threads = [t \in Threads |-> NoCall]

Init == InitWith([t \in Tables |-> "ABSENT"])

\* ------------------------------------------------- the version allocator
\* segmentManager.allocateVersion(): the value handed out.
AllocateVersion(sv) == sv
\* segmentManager.allocateVersion(): safeVersion afterwards.
AfterAllocate(sv) == sv + 1
\* segmentManager.raiseSafeVersion(v): safeVersion afterwards.
RaiseSafeVersion(sv, v) == IF v > sv THEN v ELSE sv
\* segmentManager.raiseSafeVersion(v): the value it returns.
RaiseRevised(sv, v) == v > sv

\* ----------------------------------------------------------- rejectOperation
\* A variant of line 796 that compares with < where the code has <=.
RejectBelowGiven(rr, version) ==
    IF version = VERSION_NONEXISTENT
    THEN IF rr.doesntExist THEN "OBJECT_DOESNT_EXIST" ELSE "OK"
    ELSE IF rr.exists THEN "OBJECT_EXISTS"
    ELSE IF rr.versionLeGiven /\ version < rr.givenVersion THEN "WRONG_VERSION"
    ELSE IF rr.versionNeGiven /\ version # rr.givenVersion THEN "WRONG_VERSION"
    ELSE "OK"

RejectOperation(rr, version) ==
    IF version = VERSION_NONEXISTENT
    THEN IF rr.doesntExist THEN "OBJECT_DOESNT_EXIST" ELSE "OK"
    ELSE IF rr.exists THEN "OBJECT_EXISTS"
    ELSE IF rr.versionLeGiven /\ version <= rr.givenVersion THEN "WRONG_VERSION"
    ELSE IF rr.versionNeGiven /\ version # rr.givenVersion THEN "WRONG_VERSION"
    ELSE "OK"

\* ------------------------------------------------------------------ lookup
\* What lookup(lock, key, ...) hands its caller.
View(f, t, n, v, r) ==
    [found |-> f, type |-> t, version |-> n, value |-> v, ref |-> r]
NotFound == View(FALSE, "INVALID", 0, NoValue, 0)

\* A reference resolves while the segment that holds its entry exists.
Resolves(r) == r # 0 /\ SegmentExists(log[r].seg)

\* log.getEntry() on a reference into a reclaimed segment reads memory that
\* no longer holds the entry: the candidate's key may not match (nothing is
\* found), or whatever bytes are there decode as some entry of the key.
Stale(r) ==
    {NotFound}
    \cup {View(TRUE, "OBJ", n, v, r) : n \in 1..MaxVersion, v \in Values}
    \cup {View(TRUE, "TOMB", n, NoValue, r) : n \in 1..MaxVersion}

Lookup(k) ==
    IF index[k] = 0 THEN {NotFound}
    ELSE IF Resolves(index[k])
    THEN {View(TRUE, log[index[k]].type, log[index[k]].version,
               log[index[k]].value, index[k])}
    ELSE Stale(index[k])

\* A variant of remove(lock, key) that leaves the entry in place.
RemoveNothing(idx, k, cur) == idx
\* A variant of replace(lock, key, reference) that keeps the old reference.
ReplaceNothing(idx, k, r) == idx

\* remove(lock, key): the index afterwards, given what its candidate walk saw.
Remove(idx, k, cur) == IF cur.found THEN [idx EXCEPT ![k] = 0] ELSE idx
\* replace(lock, key, reference): the index afterwards.  (When the walk does
\* not recognise the key's candidate the new reference is inserted beside it;
\* the model keeps only the new one.)
Replace(idx, k, r) == [idx EXCEPT ![k] = r]

\* ------------------------------------------------------------------ append
InHead == Cardinality({i \in 1..Len(log) : log[i].seg = head})
\* The head is closed and a new one opened when the entries do not fit.
Rolls(n) == InHead > 0 /\ InHead + n > SegCap
HeadFor(n) == IF Rolls(n) THEN nsegs + 1 ELSE head
\* The model can hold the n entries.
Room(n) == Len(log) + n <= MaxLog /\ (Rolls(n) => nsegs < MaxSeg)

\* ------------------------------------------------------------- writeObject
\* A variant of line 215 that appends the object and leaves the tombstone out.
AppendObjectOnly(lg, obj, tombstone) == Append(lg, obj)
\* Line 215, log.append(appends, 2): the object and the tombstone enter the
\* log in one append, both or neither (lines 203-208).
AppendBoth(lg, obj, tombstone) == lg \o <<obj, tombstone>>
\* A variant of lines 177-178 that asks the allocator for every version.
AlwaysAllocate(currentVersion, sv) == AllocateVersion(sv)
\* A variant of line 178 that steps over a version on every update.
SkipAVersion(currentVersion, sv) ==
    IF currentVersion = VERSION_NONEXISTENT
    THEN AllocateVersion(sv) ELSE currentVersion + 2
\* Lines 177-178: the version of the object being written.
NewObjectVersion(currentVersion, sv) ==
    IF currentVersion = VERSION_NONEXISTENT
    THEN AllocateVersion(sv) ELSE currentVersion + 1
\* A variant of lines 177-178 that takes a version from the allocator for
\* every write.
AllocatesAlways(currentVersion, sv) == AfterAllocate(sv)
\* Lines 177-178: safeVersion after the version was chosen.
SafeVersionAfterWrite(currentVersion, sv) ==
    IF currentVersion = VERSION_NONEXISTENT THEN AfterAllocate(sv) ELSE sv
\* Lines 157-164: the version lookup found.
CurrentVersion(cur) ==
    IF cur.found /\ cur.type # "TOMB" THEN cur.version ELSE VERSION_NONEXISTENT
\* Lines 189-190: a tombstone for the old object goes with the new object.
WritesTombstone(cur) ==
    CurrentVersion(cur) # VERSION_NONEXISTENT /\ cur.type = "OBJ"
\* A variant of lines 1145-1148 that discards whatever the tablet's state.
DiscardsAlways(tabletState) == TRUE
\* Lines 1145-1148: removeIfTombstone discards the tombstone.
Discards(tabletState) == tabletState # "RECOVERING"
\* A variant of lines 147-150 that serves a tablet being recovered.
IgnorantOfAbsent(tabletState) == tabletState = "ABSENT"
\* Lines 147-150, 281-284, 337-340: no tablet in the NORMAL state holds the
\* key, "we must plead ignorance".
PleadsIgnorance(tabletState) == tabletState # "NORMAL"


\* Line 159 calls removeIfTombstone(reference, this): the callback reads its
\* cookie as a CleanupParameters, and is handed the ObjectManager itself.
\* What it then does is undefined: it may act as removeIfTombstone is meant
\* to, find no tombstone behind the pointer it reads, or take the process
\* down.
WildCall(cur) ==
    IF cur.found /\ cur.type = "TOMB"
    THEN {"intended", "nothing", "abort"} ELSE {"intended"}

\* A variant of lines 170-171 and 355-356 that leaves *outVersion alone.
SameWithoutVersion(st, n) ==
    [status |-> st, version |-> Unset, index |-> index, log |-> log,
     safeVersion |-> safeVersion, head |-> head, nsegs |-> nsegs,
     synced |-> synced, aborted |-> aborted, fits |-> TRUE]
\* The outcome of a client operation that changes nothing: its status and
\* *outVersion beside the state as it is.
Same(st, n) ==
    [status |-> st, version |-> n, index |-> index, log |-> log,
     safeVersion |-> safeVersion, head |-> head, nsegs |-> nsegs,
     synced |-> synced, aborted |-> aborted, fits |-> TRUE]

\* writeObject (lines 118-238) on key k with value v and reject rules rr.
\* `ok` is whether log.append succeeds, `cur` what lookup hands back, `ub`
\* what the call of line 159 does.  `fits` is whether the model's bounds
\* hold the outcome.
WriteOutcome(k, v, rr, ok, cur, ub) ==
    LET tomb == cur.found /\ cur.type = "TOMB"
        idx1 == IF tomb /\ ub = "intended" /\ Discards(tablets[TableOf(k)])
                THEN Remove(index, k, cur) ELSE index
        currentVersion == CurrentVersion(cur)
        status == IF rr.isNull THEN "OK"
                  ELSE RejectOperation(rr, currentVersion)
        newVersion == NewObjectVersion(currentVersion, safeVersion)
        newSafe == SafeVersionAfterWrite(currentVersion, safeVersion)
        both == WritesTombstone(cur)
        n == IF both THEN 2 ELSE 1
        seg == HeadFor(n)
        obj == ObjectEntry(k, newVersion, v, seg)
        tombstone == TombstoneEntry(k, cur.version, SegmentIdOf(cur.ref), seg)
    IN  IF PleadsIgnorance(tablets[TableOf(k)])
        THEN Same("UNKNOWN_TABLET", Unset)
        ELSE IF ub = "abort"
        THEN [Same("ABORTED", Unset) EXCEPT !.aborted = TRUE]
        ELSE IF status # "OK"
        THEN [Same(status, currentVersion) EXCEPT !.index = idx1]
        ELSE IF ~ok
        THEN \* log.append failed; the version is already allocated
             [Same("RETRY", Unset) EXCEPT
                 !.index = idx1, !.safeVersion = newSafe,
                 !.fits = newSafe <= MaxSafe]
        ELSE [Same("OK", newVersion) EXCEPT
                 !.log = IF both
                         THEN Free(AppendBoth(log, obj, tombstone), cur.ref)
                         ELSE Append(log, obj),
                 !.index = Replace(idx1, k, Len(log) + 1),
                 !.safeVersion = newSafe,
                 !.head = seg,
                 !.nsegs = IF Rolls(n) THEN nsegs + 1 ELSE nsegs,
                 !.fits = Room(n)]

recoveryVars == <<replayActive, replaySegmentReturnCount, best>>
reaperVars == <<currentBucket, passes, lastReplaySegmentCount>>
cleanerVars == <<cleanSeg, cleanTodo, survSeg, gone>>
histVars == <<maxIssued, allocated, removedMax, expect>>

WriteObject(k, v, rr, ok) ==
    /\ ~aborted
    /\ UNCHANGED lockVars
    /\ anyWrites' = TRUE
    /\ \E cur \in Lookup(k) : \E ub \in WildCall(cur) :
          LET o == WriteOutcome(k, v, rr, ok, cur, ub)
          IN  /\ o.fits
              /\ log' = o.log
              /\ index' = o.index
              /\ safeVersion' = o.safeVersion
              /\ head' = o.head
              /\ nsegs' = o.nsegs
              /\ aborted' = o.aborted
              /\ allocated' = IF o.safeVersion # safeVersion
                              THEN Max(allocated, AllocateVersion(safeVersion))
                              ELSE allocated
              /\ maxIssued' = IF o.status = "OK"
                              THEN [maxIssued EXCEPT ![k] = Max(@, o.version)]
                              ELSE maxIssued
              /\ expect' = IF o.status = "OK"
                           THEN [expect EXCEPT ![k] = Wrote(v, o.version)]
                           ELSE expect
    /\ UNCHANGED <<tablets, synced, orphanBucket, removedMax, recoveryVars,
                   reaperVars, cleanerVars>>

\* readObject (lines 271-309) on key k with reject rules rr: its status,
\* *outVersion and the value appended to outBuffer.
ReadResult(k, rr, cur) ==
    IF PleadsIgnorance(tablets[TableOf(k)])
    THEN Ret("UNKNOWN_TABLET", Unset, NoValue)
    ELSE IF ~cur.found \/ cur.type # "OBJ"
    THEN Ret("OBJECT_DOESNT_EXIST", Unset, NoValue)
    ELSE IF ~rr.isNull /\ RejectOperation(rr, cur.version) # "OK"
    THEN Ret(RejectOperation(rr, cur.version), cur.version, NoValue)
    ELSE Ret("OK", cur.version, cur.value)

\* Everything readObject may return for key k in this state.
ReadResults(k, rr) == {ReadResult(k, rr, cur) : cur \in Lookup(k)}

\* readObject changes nothing of the object manager.
ReadObject(k, rr) ==
    /\ ~aborted
    /\ ReadResults(k, rr) # {}
    /\ UNCHANGED vars

\* A variant of line 383 that raises safeVersion to the removed version only.
RaiseToRemovedVersion(sv, objectVersion) ==
    RaiseSafeVersion(sv, objectVersion)
\* A variant of line 383 that sets safeVersion without comparing.
SetPastRemovedVersion(sv, objectVersion) == objectVersion + 1

\* Line 383: safeVersion after the remove.
SafeVersionAfterRemove(sv, objectVersion) ==
    RaiseSafeVersion(sv, objectVersion + 1)

\* removeObject (lines 328-387) on key k with reject rules rr.
RemoveOutcome(k, rr, ok, cur) ==
    LET status == IF rr.isNull THEN "OK"
                  ELSE RejectOperation(rr, cur.version)
        seg == HeadFor(1)
        tombstone == TombstoneEntry(k, cur.version, SegmentIdOf(cur.ref), seg)
    IN  IF PleadsIgnorance(tablets[TableOf(k)])
        THEN Same("UNKNOWN_TABLET", Unset)
        ELSE IF ~cur.found \/ cur.type # "OBJ"
        THEN Same(RejectOperation(IF rr.isNull THEN defaultRejectRules ELSE rr,
                                  VERSION_NONEXISTENT), Unset)
        ELSE IF status # "OK"
        THEN Same(status, cur.version)
        ELSE IF ~ok
        THEN Same("RETRY", cur.version)
        ELSE [Same("OK", cur.version) EXCEPT
                 !.log = Free(Append(log, tombstone), cur.ref),
                 !.head = seg,
                 !.nsegs = IF Rolls(1) THEN nsegs + 1 ELSE nsegs,
                 !.synced = Len(log) + 1,
                 !.safeVersion = SafeVersionAfterRemove(safeVersion,
                                                        cur.version),
                 !.index = Remove(index, k, cur),
                 !.fits = Room(1)]

\* A remove that deleted an object.
Deleted(o, cur) == o.status = "OK" /\ cur.found /\ cur.type = "OBJ"

RemoveObject(k, rr, ok) ==
    /\ ~aborted
    /\ UNCHANGED lockVars
    /\ \E cur \in Lookup(k) :
          LET o == RemoveOutcome(k, rr, ok, cur)
          IN  /\ o.fits
              /\ log' = o.log
              /\ index' = o.index
              /\ safeVersion' = o.safeVersion
              /\ head' = o.head
              /\ nsegs' = o.nsegs
              /\ synced' = o.synced
              /\ removedMax' = IF Deleted(o, cur)
                               THEN Max(removedMax, cur.version)
                               ELSE removedMax
              /\ expect' = IF Deleted(o, cur)
                           THEN [expect EXCEPT ![k] = Removed] ELSE expect
    /\ UNCHANGED <<tablets, anyWrites, orphanBucket, aborted, maxIssued,
                   allocated, recoveryVars, reaperVars, cleanerVars>>

\* log.sync(): everything appended so far is durable when it returns.
LogSync(lg, sy) == Len(lg)

\* syncWrites(): log.sync()
SyncWrites ==
    /\ ~aborted
    /\ UNCHANGED lockVars
    /\ synced' = LogSync(log, synced)
    /\ UNCHANGED <<log, index, safeVersion, tablets, head, nsegs, anyWrites,
                   orphanBucket, aborted, histVars, recoveryVars, reaperVars,
                   cleanerVars>>

\* ------------------------------------------------------------ replaySegment
\* A variant of line 546 that starts from safeVersion where the code starts
\* from 0.
MinSuccessorFromSafeVersion(cur) ==
    IF cur.found THEN cur.version + 1 ELSE safeVersion
\* Lines 546-566: the least version a replayed object needs.
ObjectMinSuccessor(cur) == IF cur.found THEN cur.version + 1 ELSE 0
\* A variant of lines 619-635 that asks of a tombstone what is asked of an
\* object.
TombstoneAsObject(cur) == IF cur.found THEN cur.version + 1 ELSE 0
\* Lines 619-635: the least version a replayed tombstone needs.
TombstoneMinSuccessor(cur) ==
    IF ~cur.found THEN 0
    ELSE IF cur.type = "TOMB" THEN cur.version + 1 ELSE cur.version
\* A variant of lines 556-563 that frees whatever entry is superseded.
FreeAnyEntry(cur) == cur.found
\* Lines 556-563, 627-634: freeCurrentEntry.
FreeCurrentEntry(cur) == cur.found /\ cur.type # "TOMB"

\* The stronger of two entries of a key: the higher version, a tombstone
\* before an object of the same version.
Stronger(x, y) ==
    IF x.version > y.version THEN x
    ELSE IF y.version > x.version THEN y
    ELSE IF x.type = "TOMB" THEN x
    ELSE IF y.type = "NONE" THEN x ELSE y

clientVars == <<safeVersion, tablets, head, nsegs, synced, anyWrites,
                orphanBucket, aborted, histVars>>

\* replaySegment is entered; the side log gets a segment of its own.
ReplayStart ==
    /\ ~aborted
    /\ UNCHANGED lockVars
    /\ replayActive = 0
    /\ replaySegmentReturnCount < MaxReplay
    /\ nsegs < MaxSeg
    /\ replayActive' = nsegs + 1
    /\ nsegs' = nsegs + 1
    /\ UNCHANGED <<log, index, safeVersion, tablets, head, synced, anyWrites,
                   orphanBucket, aborted, histVars, replaySegmentReturnCount,
                   best, reaperVars, cleanerVars>>

\* The index and the log after replaySegment took an entry it accepted
\* (lines 568-596, 637-656).
Replayed(k, cur, entry) ==
    [index |-> Replace(index, k, Len(log) + 1),
     log |-> IF FreeCurrentEntry(cur)
             THEN Free(Append(log, entry), cur.ref) ELSE Append(log, entry)]

\* Lines 524-600: one OBJECT of the recovery segment.
ReplayObject(k, n, v) ==
    /\ ~aborted
    /\ UNCHANGED lockVars
    /\ replayActive # 0
    /\ tablets[TableOf(k)] = "RECOVERING"
    /\ best' = [best EXCEPT ![k] = Stronger(@, [type |-> "OBJ", version |-> n])]
    /\ UNCHANGED <<clientVars, replayActive, replaySegmentReturnCount,
                   reaperVars, cleanerVars>>
    /\ \E cur \in Lookup(k) :
       IF n >= ObjectMinSuccessor(cur)
       THEN /\ Len(log) < MaxLog
            /\ log' = Replayed(k, cur, ObjectEntry(k, n, v, replayActive)).log
            /\ index' = Replayed(k, cur, ObjectEntry(k, n, v, replayActive)).index
       ELSE UNCHANGED <<log, index>>

\* Lines 601-660: one TOMBSTONE of the recovery segment.
ReplayTombstone(k, n, ts) ==
    /\ ~aborted
    /\ UNCHANGED lockVars
    /\ replayActive # 0
    /\ tablets[TableOf(k)] = "RECOVERING"
    /\ best' = [best EXCEPT ![k] = Stronger(@, [type |-> "TOMB", version |-> n])]
    /\ UNCHANGED <<clientVars, replayActive, replaySegmentReturnCount,
                   reaperVars, cleanerVars>>
    /\ \E cur \in Lookup(k) :
       IF n >= TombstoneMinSuccessor(cur)
       THEN /\ Len(log) < MaxLog
            /\ log' = Replayed(k, cur,
                               TombstoneEntry(k, n, ts, replayActive)).log
            /\ index' = Replayed(k, cur,
                                 TombstoneEntry(k, n, ts, replayActive)).index
       ELSE UNCHANGED <<log, index>>

\* Lines 661-697: one SAFEVERSION of the recovery segment.
ReplaySafeVersion(n) ==
    /\ ~aborted
    /\ UNCHANGED lockVars
    /\ replayActive # 0
    /\ Len(log) < MaxLog
    /\ log' = Append(log, SafeVersionEntry(n, replayActive))
    /\ safeVersion' = RaiseSafeVersion(safeVersion, n)
    /\ UNCHANGED <<index, tablets, head, nsegs, synced, anyWrites,
                   orphanBucket, aborted, histVars, recoveryVars, reaperVars,
                   cleanerVars>>

\* A variant of ~DelayedIncrementer that leaves the counter alone.
NoIncrement(n) == n
\* ~DelayedIncrementer (lines 439-442): (*incrementee)++
DelayedIncrement(n) == n + 1

\* replaySegment returns: ~DelayedIncrementer (lines 439-442, 502-503).
ReplayReturn ==
    /\ ~aborted
    /\ UNCHANGED lockVars
    /\ replayActive # 0
    /\ replayActive' = 0
    /\ replaySegmentReturnCount' = DelayedIncrement(replaySegmentReturnCount)
    /\ UNCHANGED <<log, index, clientVars, best, reaperVars, cleanerVars>>

\* ------------------------------------------------------- the tablet manager
\* The master adds, drops or changes the state of a tablet.  A tablet is
\* RECOVERING before the first replaySegment call for it and leaves that
\* state only after the last one (lines 461-468).
SetTablet(t, st) ==
    /\ ~aborted
    /\ UNCHANGED lockVars
    /\ tablets[t] # st
    /\ tablets[t] = "RECOVERING" => replayActive = 0
    /\ tablets' = [tablets EXCEPT ![t] = st]
    /\ UNCHANGED <<log, index, safeVersion, head, nsegs, synced, anyWrites,
                   orphanBucket, aborted, histVars, recoveryVars, reaperVars,
                   cleanerVars>>

\* ------------------------------------------------------ bucket sweeps
\* What a sweep's callbacks see behind the references of a bucket's keys.
BucketViews(b) ==
    {f \in [KeysIn(b) -> UNION {Lookup(k) : k \in KeysIn(b)}] :
        \A k \in KeysIn(b) : f[k] \in Lookup(k)}

\* removeIfTombstone (lines 1124-1159) on the entry of key k.
RemovesTombstone(k, cur) ==
    cur.found /\ cur.type = "TOMB" /\ Discards(tablets[TableOf(k)])

\* A variant of lines 746-753 that does not ask the tablet manager.
RemovesEveryObject(k, cur) == cur.found /\ cur.type = "OBJ"
\* removeIfOrphanedObject (lines 735-754) on the entry of key k.
RemovesOrphan(k, cur) ==
    cur.found /\ cur.type = "OBJ" /\ tablets[TableOf(k)] = "ABSENT"

\* Lines 1209-1212: the poller has nothing to do.
PollerIdle ==
    lastReplaySegmentCount = replaySegmentReturnCount /\ currentBucket = 0

\* RemoveTombstonePoller::poll()
Poll ==
    /\ ~aborted
    /\ UNCHANGED lockVars
    /\ UNCHANGED <<log, clientVars, recoveryVars, cleanerVars>>
    /\ IF PollerIdle
       THEN UNCHANGED <<index, reaperVars>>
       ELSE /\ lastReplaySegmentCount' =
                   IF currentBucket = 0 THEN replaySegmentReturnCount
                   ELSE lastReplaySegmentCount
            /\ \E f \in BucketViews(currentBucket) :
                   index' = [k \in Keys |->
                                IF k \in KeysIn(currentBucket)
                                   /\ RemovesTombstone(k, f[k])
                                THEN 0 ELSE index[k]]
            /\ currentBucket' = (currentBucket + 1) % NumBuckets
            /\ passes' = IF currentBucket + 1 = NumBuckets
                         THEN passes + 1 ELSE passes

\* removeOrphanedObjects(), one bucket of its loop.
RemoveOrphanedObjects ==
    /\ ~aborted
    /\ UNCHANGED lockVars
    /\ \E f \in BucketViews(orphanBucket) :
          LET orphans == {k \in KeysIn(orphanBucket) : RemovesOrphan(k, f[k])}
          IN  /\ index' = [k \in Keys |-> IF k \in orphans THEN 0 ELSE index[k]]
              /\ log' = [r \in DOMAIN log |->
                            IF \E k \in orphans : index[k] = r
                            THEN [log[r] EXCEPT !.freed = TRUE] ELSE log[r]]
    /\ orphanBucket' = (orphanBucket + 1) % NumBuckets
    /\ UNCHANGED <<safeVersion, tablets, head, nsegs, synced, anyWrites,
                   aborted, histVars, recoveryVars, reaperVars, cleanerVars>>

\* ------------------------------------------------------------- the cleaner
\* The cleaner picks a closed segment and will hand each of its entries to
\* relocate().  The head and the side log of a running replaySegment are not
\* cleaned.
StartClean(s) ==
    /\ ~aborted
    /\ UNCHANGED lockVars
    /\ cleanSeg = 0
    /\ SegmentExists(s)
    /\ s # head
    /\ s # replayActive
    /\ \E r \in DOMAIN log : log[r].seg = s
    /\ cleanSeg' = s
    /\ cleanTodo' = {r \in DOMAIN log : log[r].seg = s}
    /\ UNCHANGED <<log, index, clientVars, recoveryVars, reaperVars, survSeg,
                   gone>>

\* LogEntryRelocator::append: the copy lands in the pass's survivor segment.
SurvivorFor == IF survSeg = 0 THEN nsegs + 1 ELSE survSeg
RelocatorRoom == Len(log) < MaxLog /\ (survSeg = 0 => nsegs < MaxSeg)
Relocated(r) == [log[r] EXCEPT !.seg = SurvivorFor, !.freed = FALSE]

\* A variant of lines 894-895 that keeps every object of the segment.
KeepEveryObject(cur, r) == TRUE
\* Lines 894-895: the entry being cleaned is the one the index refers to.
KeepNewObject(cur, r) == cur.ref = r
\* A variant of line 952 that keeps every tombstone.
KeepEveryTomb(tomb) == TRUE
\* Line 952: the tombstone is still needed.
KeepNewTomb(tomb) == SegmentExists(tomb.tseg)

\* relocateObject (lines 872-905) on the entry at reference r: the index
\* afterwards, whether the entry was dealt with, whether a copy was made and
\* whether the process died.  `ok` is whether the relocator's append
\* succeeds, `assertions` whether the build checks assert().
RelocateObjectOutcome(r, ok, assertions, cur) ==
    LET k == log[r].key
        kept(idx, done, copied, dead) ==
            [index |-> idx, done |-> done, copied |-> copied, aborted |-> dead]
    IN  IF tablets[TableOf(k)] = "ABSENT"
        THEN kept(Remove(index, k, cur), TRUE, FALSE, FALSE)
        ELSE IF cur.found /\ cur.type # "OBJ" /\ assertions
        THEN kept(index, FALSE, FALSE, TRUE)
        ELSE IF ~(cur.found /\ KeepNewObject(cur, r))
        THEN kept(index, TRUE, FALSE, FALSE)
        ELSE IF ~ok
        THEN kept(index, FALSE, FALSE, FALSE)
        ELSE kept(Replace(index, k, Len(log) + 1), TRUE, TRUE, FALSE)

RelocateObject(r, ok, assertions) ==
    /\ ~aborted
    /\ UNCHANGED lockVars
    /\ cleanSeg # 0
    /\ r \in cleanTodo
    /\ log[r].type = "OBJ"
    /\ UNCHANGED <<safeVersion, tablets, head, synced, anyWrites,
                   orphanBucket, histVars, recoveryVars, reaperVars,
                   cleanSeg, gone>>
    /\ \E cur \in Lookup(log[r].key) :
          LET o == RelocateObjectOutcome(r, ok, assertions, cur)
          IN  /\ o.copied => RelocatorRoom
              /\ index' = o.index
              /\ aborted' = o.aborted
              /\ cleanTodo' = IF o.done THEN cleanTodo \ {r} ELSE cleanTodo
              /\ log' = IF o.copied THEN Append(log, Relocated(r)) ELSE log
              /\ survSeg' = IF o.copied THEN SurvivorFor ELSE survSeg
              /\ nsegs' = IF o.copied /\ survSeg = 0 THEN nsegs + 1 ELSE nsegs

\* relocateTombstone (lines 945-961) on the entry at reference r.
RelocateTombstone(r, ok) ==
    /\ ~aborted
    /\ UNCHANGED lockVars
    /\ cleanSeg # 0
    /\ r \in cleanTodo
    /\ log[r].type = "TOMB"
    /\ UNCHANGED <<index, safeVersion, tablets, head, synced, anyWrites,
                   orphanBucket, aborted, histVars, recoveryVars, reaperVars,
                   cleanSeg, gone>>
    /\ IF ~KeepNewTomb(log[r])
       THEN /\ cleanTodo' = cleanTodo \ {r}
            /\ UNCHANGED <<log, nsegs, survSeg>>
       ELSE IF ~ok
       THEN UNCHANGED <<log, nsegs, survSeg, cleanTodo>>
       ELSE /\ RelocatorRoom
            /\ log' = Append(log, Relocated(r))
            /\ survSeg' = SurvivorFor
            /\ nsegs' = IF survSeg = 0 THEN nsegs + 1 ELSE nsegs
            /\ cleanTodo' = cleanTodo \ {r}

\* relocate (lines 841-850) on an entry that is neither an object nor a
\* tombstone: nothing is done.
RelocateOther(r) ==
    /\ ~aborted
    /\ UNCHANGED lockVars
    /\ cleanSeg # 0
    /\ r \in cleanTodo
    /\ log[r].type \notin {"OBJ", "TOMB"}
    /\ cleanTodo' = cleanTodo \ {r}
    /\ UNCHANGED <<log, index, clientVars, recoveryVars, reaperVars, cleanSeg,
                   survSeg, gone>>

\* Every entry of the segment has been through relocate(): the cleaner
\* reclaims the segment.
FinishClean ==
    /\ ~aborted
    /\ UNCHANGED lockVars
    /\ cleanSeg # 0
    /\ cleanTodo = {}
    /\ gone' = gone \cup {cleanSeg}
    /\ cleanSeg' = 0
    /\ survSeg' = 0
    /\ UNCHANGED <<log, index, clientVars, recoveryVars, reaperVars, cleanTodo>>

\* ------------------------------------------------------------------- Next
Refs == 1..MaxLog

\* The clients' requests, on keys of ks with values of vs and reject rules
\* of rrs.
ClientOn(ks, vs, rrs) ==
    \/ \E k \in ks, v \in vs, rr \in rrs, ok \in BOOLEAN :
          WriteObject(k, v, rr, ok)
    \/ \E k \in ks, rr \in rrs : ReadObject(k, rr)
    \/ \E k \in ks, rr \in rrs, ok \in BOOLEAN : RemoveObject(k, rr, ok)
Client == ClientOn(Keys, Values, ClientRules)

Cleaner ==
    \/ \E s \in 1..MaxSeg : StartClean(s)
    \/ \E r \in Refs, ok \in BOOLEAN, assertions \in BOOLEAN :
          RelocateObject(r, ok, assertions)
    \/ \E r \in Refs, ok \in BOOLEAN : RelocateTombstone(r, ok)
    \/ \E r \in Refs : RelocateOther(r)
    \/ FinishClean

\* replaySegment calls on recovery segments whose entries have keys of ks,
\* versions of ns, values of vs, tombstones naming segments of tss and
\* safeVersions of svs.
ReplayOn(ks, ns, vs, tss, svs) ==
    \/ ReplayStart
    \/ \E k \in ks, n \in ns, v \in vs : ReplayObject(k, n, v)
    \/ \E k \in ks, n \in ns, ts \in tss : ReplayTombstone(k, n, ts)
    \/ \E n \in svs : ReplaySafeVersion(n)
    \/ ReplayReturn
Replay == ReplayOn(Keys, 1..MaxVersion, Values, 1..MaxSeg, 1..(MaxVersion + 1))

Next ==
    \/ Client
    \/ SyncWrites
    \/ Replay
    \/ \E t \in Tables, st \in TabletStates : SetTablet(t, st)
    \/ Poll
    \/ RemoveOrphanedObjects
    \/ Cleaner

Spec == Init /\ [][Next]_vars

\* ------------------------------------------------- narrower specifications
\* A master serving its tablets: clients and the cleaner, every tablet NORMAL.
InitSteady == InitWith([t \in Tables |-> "NORMAL"])
CleanerSteady ==
    \/ \E s \in 1..MaxSeg : StartClean(s)
    \/ \E r \in Refs, ok \in BOOLEAN, assertions \in BOOLEAN :
          RelocateObject(r, ok, assertions)
    \/ \E r \in Refs, ok \in BOOLEAN : RelocateTombstone(r, ok)
    \/ FinishClean
NextSteady == Client \/ CleanerSteady
SpecSteady == InitSteady /\ [][NextSteady]_vars

\* A master whose tablets come and go: clients, the cleaner, the sweep for
\* orphaned objects.
NextOwnership ==
    \/ ClientOn(Keys, {"x"}, {NullRules})
    \/ CleanerSteady
    \/ \E t \in Tables, st \in {"ABSENT", "NORMAL"} : SetTablet(t, st)
    \/ RemoveOrphanedObjects
SpecOwnership == Init /\ [][NextOwnership]_vars

\* A recovery: replaySegment calls, the tablets' states, the poller.  The
\* dispatch loop calls every poller again and again, so a poll that has work
\* to do is eventually made.
NextRecovery ==
    \/ ReplayOn({"a"}, 1..MaxVersion, {"x"}, {1}, {MaxVersion + 1})
    \/ \E st \in TabletStates : SetTablet(TableOf("a"), st)
    \/ Poll
LiveSpec == Init /\ [][NextRecovery]_vars /\ WF_vars(Poll)

\* Replay alone, into tablets that are RECOVERING.
InitReplay == InitWith([t \in Tables |-> "RECOVERING"])
NextReplay == ReplayOn({"a"}, 1..MaxVersion, Values, {1}, {MaxVersion + 1})
SpecReplay == InitReplay /\ [][NextReplay]_vars

\* A master whose tablets stay RECOVERING, with all that runs beside replay:
\* clients, the poller and the cleaner.  A side log segment joins the log,
\* and so can be cleaned, any time after its replaySegment call returned.
NextCleanedRecovery ==
    \/ ClientOn({"a"}, {"x"}, {NullRules})
    \/ ReplayOn({"a"}, 1..2, {"x"}, {1}, {2})
    \/ Poll
    \/ Cleaner
SpecCleanedRecovery == InitReplay /\ [][NextCleanedRecovery]_vars

\* A master that serves one tablet while it recovers another: clients and
\* replaySegment calls.
InitMixed == InitWith([t \in Tables |-> IF t = TableOf("a") THEN "RECOVERING"
                                       ELSE "NORMAL"])
NextMixed ==
    \/ ClientOn({"b"}, {"x"}, {NullRules})
    \/ ReplayOn({"a"}, {2}, {"x"}, {1}, {3})
SpecMixed == InitMixed /\ [][NextMixed]_vars

\* Clients alone, with every combination of reject rules.
AllRules ==
    {NullRules} \cup
    {Rules(FALSE, g, d, e, le, ne) :
        g \in 0..MaxVersion, d \in BOOLEAN, e \in BOOLEAN,
        le \in BOOLEAN, ne \in BOOLEAN}
NextReject == ClientOn(Keys, {"x"}, AllRules)
SpecReject == InitSteady /\ [][NextReject]_vars

\* Clients while the master adds, drops, recovers and opens tablets.
NextTablets ==
    \/ ClientOn(Keys, {"x"}, {NullRules})
    \/ \E t \in Tables, st \in TabletStates : SetTablet(t, st)
SpecTablets == Init /\ [][NextTablets]_vars

\* Recovery of a tablet, then service: the cleaner touches nothing before
\* every replaySegment call has returned and every tablet has left the
\* RECOVERING state.
Settled == replayActive = 0 /\ \A t \in Tables : tablets[t] = "NORMAL"
NextSettled ==
    \/ ReplayOn({"a"}, {1}, {"x"}, {1}, {2})
    \/ \E t \in Tables : SetTablet(t, "NORMAL")
    \/ Poll
    \/ Settled /\ \E s \in 1..MaxSeg : StartClean(s)
    \/ Settled /\ \E r \in Refs, ok \in BOOLEAN, assertions \in BOOLEAN :
                      RelocateObject(r, ok, assertions)
    \/ Settled /\ \E r \in Refs, ok \in BOOLEAN : RelocateTombstone(r, ok)
    \/ Settled /\ \E r \in Refs : RelocateOther(r)
    \/ Settled /\ FinishClean
SpecSettled == InitReplay /\ [][NextSettled]_vars

\* Service, then recovery into the same table, then service again: clients
\* write "x", recovery segments carry objects of key a with value "y".
NextScenario ==
    \/ ClientOn(Keys, {"x"}, {NullRules})
    \/ \E st \in {"NORMAL", "RECOVERING"} : SetTablet(TableOf("a"), st)
    \/ ReplayStart
    \/ \E n \in 1..2 : ReplayObject("a", n, "y")
    \/ ReplayReturn
SpecScenario == InitSteady /\ [][NextScenario]_vars

\* Recovery, then service of what was recovered: clients meet the objects
\* and the tombstones that replay left in the index.
NextReopened ==
    \/ ReplayOn({"a"}, {1}, {"y"}, {1}, {2})
    \/ SetTablet(TableOf("a"), "NORMAL")
    \/ ClientOn({"a"}, {"x"}, {NullRules})
SpecReopened == InitMixed /\ [][NextReopened]_vars

\* Clients and their syncWrites calls.
NextDurable == ClientOn(Keys, {"x"}, {NullRules}) \/ SyncWrites
SpecDurable == InitSteady /\ [][NextDurable]_vars

\* Recovery of a tablet beside the poller, without the poller's fairness.
NextSweeps ==
    \/ ReplayOn({"a"}, 1..2, {"x"}, {1}, {2})
    \/ \E st \in TabletStates : SetTablet(TableOf("a"), st)
    \/ Poll
SpecSweeps == Init /\ [][NextSweeps]_vars

\* The cleaner beside clients that write and remove without reject rules.
NextCleaning == ClientOn(Keys, {"x"}, {NullRules}) \/ CleanerSteady
SpecCleaning == InitSteady /\ [][NextCleaning]_vars

\* The cleaner beside clients on a master that drops and regains a tablet.
NextDropped ==
    \/ ClientOn(Keys, {"x"}, {NullRules})
    \/ CleanerSteady
    \/ \E st \in {"ABSENT", "NORMAL"} : SetTablet(TableOf("a"), st)
SpecDropped == InitSteady /\ [][NextDropped]_vars

\* Tombstones that replay left, cleaned once recovery is over; some name a
\* segment of the log, some a segment the log does not have.
NextEntombed ==
    \/ ReplayStart
    \/ \E n \in 1..2, ts \in {1, MaxSeg} : ReplayTombstone("a", n, ts)
    \/ ReplayReturn
    \/ SetTablet(TableOf("a"), "NORMAL")
    \/ Settled /\ \E s \in 1..MaxSeg : StartClean(s)
    \/ Settled /\ \E r \in Refs, ok \in BOOLEAN : RelocateTombstone(r, ok)
    \/ Settled /\ FinishClean
SpecEntombed == InitMixed /\ [][NextEntombed]_vars

\* removeOrphanedObjects after recoveries that were given up: a tablet under
\* recovery is dropped or taken up again between its calls, not during one.
NextOrphans ==
    \/ ReplayOn(Keys, {1}, {"y"}, {1}, {2})
    \/ orphanBucket = 0
          /\ \E t \in Tables, st \in {"ABSENT", "RECOVERING"} : SetTablet(t, st)
    \/ RemoveOrphanedObjects
SpecOrphans == InitReplay /\ [][NextOrphans]_vars

\* ------------------------------------------ the handlers, step by step
\* writeObject and removeObject as the threads that serve requests run them:
\* one step for each access to what the threads share (the tablet manager and
\* the index, the version allocator, the log, the index again).  The handlers
\* that are single steps above take the lock and release it within the step.

\* HashTableBucketLock's constructor returns once no thread holds the lock.
Unlocked(l) == hashTableBucketLocks[l] = NoThread
\* Thread t is at position p of the handler kd.
At(t, kd, p) == threads[t].kind = kd /\ threads[t].pc = p
\* A variant of lines 143 and 333 that enters the handler without the lock.
TookNothing(t, l) == UNCHANGED hashTableBucketLocks
\* Lines 143 and 333: thread t holds lock l from here to the return.
Took(t, l) == hashTableBucketLocks' = [hashTableBucketLocks EXCEPT ![l] = t]
\* The destructor of the HashTableBucketLock, when the handler returns.
Returned(t) ==
    /\ hashTableBucketLocks' =
          [hashTableBucketLocks EXCEPT ![LockOf(threads[t].key)] = NoThread]
    /\ threads' = [threads EXCEPT ![t] = NoCall]

\* writeObject, lines 143-173: the lock, the tablet, lookup, the reject rules.
WriteEnter(t, k, v, rr) ==
    /\ ~aborted
    /\ threads[t].pc = "idle"
    /\ Unlocked(LockOf(k))
    /\ anyWrites' = TRUE
    /\ \E cur \in Lookup(k) : \E ub \in WildCall(cur) :
          LET o == WriteOutcome(k, v, rr, FALSE, cur, ub)
          IN  /\ index' = o.index
              /\ aborted' = o.aborted
              /\ IF o.status = "RETRY"
                 THEN /\ Took(t, LockOf(k))
                      /\ threads' = [threads EXCEPT
                            ![t] = [NoCall EXCEPT
                                       !.pc = "looked", !.kind = "write",
                                       !.key = k, !.value = v, !.cur = cur]]
                 ELSE UNCHANGED lockVars
    /\ UNCHANGED <<log, safeVersion, tablets, head, nsegs, synced,
                   orphanBucket, histVars, recoveryVars, reaperVars,
                   cleanerVars>>

\* writeObject, lines 177-178: the version of the new object.
WriteAllocate(t) ==
    /\ ~aborted
    /\ At(t, "write", "looked")
    /\ LET currentVersion == CurrentVersion(threads[t].cur)
           newSafe == SafeVersionAfterWrite(currentVersion, safeVersion)
       IN  /\ newSafe <= MaxSafe
           /\ safeVersion' = newSafe
           /\ allocated' = IF newSafe # safeVersion
                           THEN Max(allocated, AllocateVersion(safeVersion))
                           ELSE allocated
           /\ threads' = [threads EXCEPT
                 ![t].pc = "versioned",
                 ![t].version = NewObjectVersion(currentVersion, safeVersion)]
    /\ UNCHANGED <<log, index, tablets, head, nsegs, synced, anyWrites,
                   orphanBucket, aborted, maxIssued, removedMax, expect,
                   recoveryVars, reaperVars, cleanerVars,
                   hashTableBucketLocks>>

\* writeObject, lines 180-220: the object, with the tombstone of the object
\* it replaces, is appended to the log.
WriteAppend(t, ok) ==
    /\ ~aborted
    /\ At(t, "write", "versioned")
    /\ LET c == threads[t]
           both == WritesTombstone(c.cur)
           n == IF both THEN 2 ELSE 1
           seg == HeadFor(n)
           obj == ObjectEntry(c.key, c.version, c.value, seg)
           tombstone == TombstoneEntry(c.key, c.cur.version,
                                       SegmentIdOf(c.cur.ref), seg)
       IN  IF ~ok
           THEN Returned(t) /\ UNCHANGED <<log, head, nsegs>>
           ELSE /\ Room(n)
                /\ log' = IF both THEN AppendBoth(log, obj, tombstone)
                          ELSE Append(log, obj)
                /\ head' = seg
                /\ nsegs' = IF Rolls(n) THEN nsegs + 1 ELSE nsegs
                /\ threads' = [threads EXCEPT ![t].pc = "appended",
                                              ![t].ref = Len(log) + 1]
                /\ UNCHANGED hashTableBucketLocks
    /\ UNCHANGED <<index, safeVersion, tablets, synced, anyWrites,
                   orphanBucket, aborted, histVars, recoveryVars, reaperVars,
                   cleanerVars>>

\* writeObject, lines 222-237: the index takes the new reference, the old
\* object is freed, the handler returns STATUS_OK.
WriteFinish(t) ==
    /\ ~aborted
    /\ At(t, "write", "appended")
    /\ LET c == threads[t]
       IN  /\ index' = Replace(index, c.key, c.ref)
           /\ log' = IF WritesTombstone(c.cur) THEN Free(log, c.cur.ref)
                     ELSE log
           /\ maxIssued' = [maxIssued EXCEPT ![c.key] = Max(@, c.version)]
           /\ expect' = [expect EXCEPT ![c.key] = Wrote(c.value, c.version)]
    /\ Returned(t)
    /\ UNCHANGED <<safeVersion, tablets, head, nsegs, synced, anyWrites,
                   orphanBucket, aborted, allocated, removedMax,
                   recoveryVars, reaperVars, cleanerVars>>

\* removeObject, lines 333-363: the lock, the tablet, lookup, the reject
\* rules.
RemoveEnter(t, k, rr) ==
    /\ ~aborted
    /\ threads[t].pc = "idle"
    /\ Unlocked(LockOf(k))
    /\ \E cur \in Lookup(k) :
          IF RemoveOutcome(k, rr, FALSE, cur).status = "RETRY"
          THEN /\ Took(t, LockOf(k))
               /\ threads' = [threads EXCEPT
                     ![t] = [NoCall EXCEPT
                                !.pc = "looked", !.kind = "remove",
                                !.key = k, !.cur = cur]]
          ELSE UNCHANGED lockVars
    /\ UNCHANGED <<log, index, clientVars, recoveryVars, reaperVars,
                   cleanerVars>>

\* removeObject, lines 365-380: the tombstone is appended to the log.
RemoveAppend(t, ok) ==
    /\ ~aborted
    /\ At(t, "remove", "looked")
    /\ LET c == threads[t]
           seg == HeadFor(1)
           tombstone == TombstoneEntry(c.key, c.cur.version,
                                       SegmentIdOf(c.cur.ref), seg)
       IN  IF ~ok
           THEN Returned(t) /\ UNCHANGED <<log, head, nsegs>>
           ELSE /\ Room(1)
                /\ log' = Append(log, tombstone)
                /\ head' = seg
                /\ nsegs' = IF Rolls(1) THEN nsegs + 1 ELSE nsegs
                /\ threads' = [threads EXCEPT ![t].pc = "appended",
                                              ![t].ref = Len(log) + 1]
                /\ UNCHANGED hashTableBucketLocks
    /\ UNCHANGED <<index, safeVersion, tablets, synced, anyWrites,
                   orphanBucket, aborted, histVars, recoveryVars, reaperVars,
                   cleanerVars>>

\* removeObject, line 381: log.sync().
RemoveSync(t) ==
    /\ ~aborted
    /\ At(t, "remove", "appended")
    /\ synced' = LogSync(log, synced)
    /\ threads' = [threads EXCEPT ![t].pc = "synced"]
    /\ UNCHANGED hashTableBucketLocks
    /\ UNCHANGED <<log, index, safeVersion, tablets, head, nsegs, anyWrites,
                   orphanBucket, aborted, histVars, recoveryVars, reaperVars,
                   cleanerVars>>

\* removeObject, line 383: segmentManager.raiseSafeVersion.
RemoveRaise(t) ==
    /\ ~aborted
    /\ At(t, "remove", "synced")
    /\ safeVersion' = SafeVersionAfterRemove(safeVersion,
                                             threads[t].cur.version)
    /\ threads' = [threads EXCEPT ![t].pc = "raised"]
    /\ UNCHANGED hashTableBucketLocks
    /\ UNCHANGED <<log, index, tablets, head, nsegs, synced, anyWrites,
                   orphanBucket, aborted, histVars, recoveryVars, reaperVars,
                   cleanerVars>>

\* removeObject, lines 384-386: the object is freed, the key leaves the
\* index, the handler returns STATUS_OK.
RemoveFinish(t) ==
    /\ ~aborted
    /\ At(t, "remove", "raised")
    /\ LET c == threads[t]
       IN  /\ log' = Free(log, c.cur.ref)
           /\ index' = Remove(index, c.key, c.cur)
           /\ removedMax' = Max(removedMax, c.cur.version)
           /\ expect' = [expect EXCEPT ![c.key] = Removed]
    /\ Returned(t)
    /\ UNCHANGED <<safeVersion, tablets, head, nsegs, synced, anyWrites,
                   orphanBucket, aborted, maxIssued, allocated, recoveryVars,
                   reaperVars, cleanerVars>>

\* Threads serving writes, removes and reads beside the cleaner, every
\* tablet NORMAL.
NextThreads ==
    \/ \E t \in Threads, k \in Keys : WriteEnter(t, k, "x", NullRules)
    \/ \E t \in Threads : WriteAllocate(t)
    \/ \E t \in Threads, ok \in BOOLEAN : WriteAppend(t, ok)
    \/ \E t \in Threads : WriteFinish(t)
    \/ \E t \in Threads, k \in Keys : RemoveEnter(t, k, NullRules)
    \/ \E t \in Threads, ok \in BOOLEAN : RemoveAppend(t, ok)
    \/ \E t \in Threads : RemoveSync(t)
    \/ \E t \in Threads : RemoveRaise(t)
    \/ \E t \in Threads : RemoveFinish(t)
    \/ \E k \in Keys : Unlocked(LockOf(k)) /\ ReadObject(k, NullRules)
    \/ \E s \in 1..MaxSeg : StartClean(s)
    \/ \E r \in Refs, ok \in BOOLEAN :
          /\ r \in cleanTodo
          /\ Unlocked(LockOf(log[r].key))
          /\ RelocateObject(r, ok, TRUE)
    \/ \E r \in Refs, ok \in BOOLEAN : RelocateTombstone(r, ok)
    \/ FinishClean
SpecThreads == InitSteady /\ [][NextThreads]_vars

\* A recovery of the table of key "a" in two replaySegment calls, each with
\* its own side log segment: the object of the key, its tombstone (naming a
\* segment of the crashed master's log) and a safeVersion entry.  Once the
\* tablets are NORMAL the poller sweeps and the cleaner cleans.
NextRecovered ==
    \/ ReplayOn({"a"}, {1}, {"y"}, {MaxSeg}, {2})
    \/ \E t \in Tables : SetTablet(t, "NORMAL")
    \/ Poll
    \/ Settled /\ CleanerSteady
SpecRecovered == InitMixed /\ [][NextRecovered]_vars

\* Every operation that frees a log reference, on one key: clients write and
\* remove it while its tablet is NORMAL, replaySegment recovers it while the
\* tablet is RECOVERING, removeOrphanedObjects sweeps once it is given up.
\* The tablet changes state between calls, not during one.
NextLifetime ==
    \/ WriteObject("a", "x", NullRules, TRUE)
    \/ \E ok \in BOOLEAN : RemoveObject("a", NullRules, ok)
    \/ ReplayStart
    \/ \E n \in 1..2 : ReplayObject("a", n, "y")
    \/ \E n \in 1..2 : ReplayTombstone("a", n, 1)
    \/ ReplayReturn
    \/ /\ replayActive = 0 /\ orphanBucket = 0
       /\ \E st \in TabletStates : SetTablet(TableOf("a"), st)
    \/ RemoveOrphanedObjects
SpecLifetime == InitMixed /\ [][NextLifetime]_vars

\* ------------------------------------------------------------------ claims
\* Every way a write of key k can end in the current state.
WriteOutcomes(k) ==
    {WriteOutcome(k, v, rr, ok, cur, ub) :
        v \in Values, rr \in ClientRules, ok \in BOOLEAN,
        cur \in Lookup(k), ub \in {"intended", "nothing"}}

\* C1: whatever writes, removes, reads and cleaner callbacks came before, a
\* write of key k that succeeds now returns a version strictly greater than
\* every version an earlier successful write of k returned, a remove of k in
\* between or not.
C1_WriteVersionsIncrease ==
    \A k \in Keys : \A o \in WriteOutcomes(k) :
        o.status = "OK" => o.version > maxIssued[k]

\* A key was written, updated and removed, and can be written again.
C1_Witness ==
    \E k \in Keys :
        /\ maxIssued[k] >= 2
        /\ expect[k].kind = "removed"
        /\ removedMax >= 2
        /\ \E o \in WriteOutcomes(k) : o.status = "OK"

\* C2: a write that creates key k (the index holds no object for it) takes
\* its version from the allocator, and the version is strictly greater than
\* every version an earlier write of k returned, however the earlier object
\* left the index.
C2_NewKeyVersionIsFresh ==
    \A k \in Keys : \A cur \in Lookup(k) :
        \A v \in Values, rr \in ClientRules, ub \in {"intended", "nothing"} :
            LET o == WriteOutcome(k, v, rr, TRUE, cur, ub)
            IN  o.status = "OK" /\ CurrentVersion(cur) = VERSION_NONEXISTENT
                => /\ o.version = AllocateVersion(safeVersion)
                   /\ o.version > maxIssued[k]

\* C2 is refuted in a state like this one: the key's object left the index
\* with its tablet, and the tablet is back.
C2_Orphaned ==
    \E k \in Keys :
        /\ maxIssued[k] >= safeVersion
        /\ index[k] = 0
        /\ tablets[TableOf(k)] = "NORMAL"

\* C3: after a write of key k returned OK with version n for value v, and
\* until another write or remove of k succeeds, a read of k returns OK, the
\* value v and the version n (a read with reject rules that reject version n
\* returns their status and the version n); the write may have created k or
\* overwritten it.
C3_ReadAfterWrite ==
    \A k \in Keys :
        expect[k].kind = "object" =>
            \A rr \in ClientRules : \A r \in ReadResults(k, rr) :
                /\ r.version = expect[k].version
                /\ r.status = "OK" => r.value = expect[k].value
                /\ rr.isNull => r.status = "OK"
                /\ ~rr.isNull => r.status = RejectOperation(rr, expect[k].version)

\* A key was overwritten (its version is past the first) and its segment has
\* been through the cleaner since.
C3_Witness ==
    \E k \in Keys :
        /\ expect[k].kind = "object"
        /\ expect[k].version >= 2
        /\ index[k] # 0
        /\ gone # {}
        /\ Ret("OK", expect[k].version, expect[k].value)
               \in ReadResults(k, NullRules)

\* C4: after a remove of key k that deleted an object returned OK, and until
\* a write of k succeeds, every read of k returns OBJECT_DOESNT_EXIST and the
\* index has no entry for k.
C4_ReadAfterRemove ==
    \A k \in Keys :
        expect[k].kind = "removed" =>
            /\ index[k] = 0
            /\ \A rr \in ClientRules : \A r \in ReadResults(k, rr) :
                   r.status = "OBJECT_DOESNT_EXIST"

\* A key was written and removed, and the tombstone's segment is being
\* cleaned.
C4_Witness ==
    \E k \in Keys :
        /\ expect[k].kind = "removed"
        /\ removedMax >= 1
        /\ \E r \in DOMAIN log :
              log[r].type = "TOMB" /\ log[r].key = k /\ log[r].seg = cleanSeg
        /\ ReadResults(k, NullRules)
               = {Ret("OBJECT_DOESNT_EXIST", Unset, NoValue)}

\* A step of the cleaner on a segment: an entry handed to relocate(), the
\* segment picked or reclaimed.
CleanerStep == cleanSeg' # cleanSeg \/ cleanTodo' # cleanTodo

\* C5: a cleaner step (an entry copied, skipped, its copy failed; the segment
\* reclaimed) leaves what a read of any key with any reject rules returns
\* (status, value and version) as it was.
C5_CleanerKeepsReads ==
    [][CleanerStep => \A k \in Keys, rr \in ClientRules :
                          ReadResults(k, rr)' = ReadResults(k, rr)]_vars

\* The cleaner copied a live object and the index refers to the copy, while
\* a dead copy of another version of some key is in the log.
C5_Witness ==
    /\ survSeg # 0
    /\ \E k \in Keys :
          /\ index[k] # 0
          /\ log[index[k]].seg = survSeg
          /\ log[index[k]].type = "OBJ"
    /\ \E r \in DOMAIN log : log[r].freed

\* No replaySegment call is running and no tablet is RECOVERING.
Quiet ==
    replayActive = 0 /\ \A t \in Tables : tablets[t] # "RECOVERING"
\* The index holds no tombstone.
NoTombstones ==
    \A k \in Keys : \A cur \in Lookup(k) : ~(cur.found /\ cur.type = "TOMB")

\* C6: if from some point on no replaySegment call runs and no tablet is
\* RECOVERING, then the poller, polled again and again, eventually leaves no
\* tombstone in the index.
C6_ReaperRemovesTombstones == <>[]Quiet => <>[]NoTombstones

\* The state C6 is refuted in: replay is over, no tablet is RECOVERING, the
\* poller has finished its pass and a tombstone is indexed.
C6_Stuck ==
    /\ Quiet
    /\ PollerIdle
    /\ ~NoTombstones

\* The entry the index holds for key k, as replay ranks entries.
Indexed(cur) ==
    IF cur.found THEN [type |-> cur.type, version |-> cur.version] ELSE NoEntry

\* C8: whatever OBJECT and TOMBSTONE entries of a key replay has been handed,
\* in whatever order and over however many replaySegment calls, the index
\* entry of the key is the entry of highest version among them, a tombstone
\* before an object of the same version.
C8_ReplayOrderIndependent ==
    \A k \in Keys : \A cur \in Lookup(k) : Indexed(cur) = best[k]

\* Replay has been handed an object after a tombstone of a higher or equal
\* version, in a second replaySegment call, and the tombstone is indexed.
C8_Witness ==
    \E k \in Keys :
        /\ replaySegmentReturnCount >= 1
        /\ replayActive # 0
        /\ best[k].type = "TOMB"
        /\ best[k].version = MaxVersion
        /\ index[k] # 0
        /\ log[index[k]].type = "TOMB"
        /\ index[k] < Len(log)

\* Entry x is at least as strong as entry y: a higher version, or the same
\* version and the same type or a tombstone.
AtLeast(x, y) ==
    \/ x.version > y.version
    \/ x.version = y.version /\ (x.type = y.type \/ x.type = "TOMB")

\* C7: while the tablet of key k is RECOVERING, no step weakens the index
\* entry of k: an indexed tombstone of version v stays until an entry of
\* higher version replaces it, and the index never goes back to an object of
\* version v or less, whoever takes the step (replay, the poller, the
\* cleaner, a client).
C7_DeleteConsistency ==
    [][\A k \in Keys :
          tablets[TableOf(k)] = "RECOVERING" /\ tablets'[TableOf(k)] = "RECOVERING"
          => \A cur \in Lookup(k) : \A nxt \in Lookup(k)' :
                cur.found => nxt.found /\ AtLeast(Indexed(nxt), Indexed(cur))]_vars

\* The state C7 is refuted in: the segment of an indexed tombstone of a
\* RECOVERING tablet has been reclaimed.
C7_Dangling ==
    \E k \in Keys :
        /\ tablets[TableOf(k)] = "RECOVERING"
        /\ index[k] # 0
        /\ log[index[k]].type = "TOMB"
        /\ ~Resolves(index[k])

\* The highest safeVersion a replayed SAFEVERSION entry carried.
ReplayedSafeVersion ==
    LET seen == {log[r].version : r \in {i \in DOMAIN log : log[i].type = "SAFEVER"}}
    IN  IF seen = {} THEN 0 ELSE CHOOSE n \in seen : \A m \in seen : m <= n

\* C9 as stated: safeVersion is at least every version a write has issued
\* (creating a key or updating it) and every object or tombstone version
\* replay has been handed; a write in the current state included.
C9_SafeVersionIsFloor ==
    /\ \A k \in Keys : safeVersion >= maxIssued[k]
    /\ \A k \in Keys : safeVersion >= best[k].version
    /\ \A k \in Keys : \A o \in WriteOutcomes(k) :
          o.status = "OK" => o.safeVersion >= o.version

\* C9 as the code has it: safeVersion is above every version the allocator
\* handed out and every version a remove deleted, and at least every
\* safeVersion replay has been handed.
C9_SafeVersionAboveAllocated ==
    /\ safeVersion > allocated
    /\ safeVersion > removedMax
    /\ safeVersion >= ReplayedSafeVersion
    /\ \A k \in Keys : \A o \in WriteOutcomes(k) :
          o.status = "OK" /\ index[k] = 0 => o.safeVersion > o.version

\* A key was created and removed while replay handed over a safeVersion.
C9_Witness ==
    /\ allocated >= 1
    /\ removedMax >= 1
    /\ ReplayedSafeVersion >= 1
    /\ safeVersion = Max(removedMax + 1, ReplayedSafeVersion)

\* C10: no step lowers safeVersion, and raiseSafeVersion(v) changes it, and
\* says so, exactly when v is above it.
C10_SafeVersionNeverDecreases ==
    [][/\ safeVersion' >= safeVersion
       /\ \A v \in 0..(MaxSafe + 1) :
             /\ RaiseRevised(safeVersion, v) <=> v > safeVersion
             /\ RaiseSafeVersion(safeVersion, v) # safeVersion <=> v > safeVersion
             /\ RaiseSafeVersion(safeVersion, v) >= safeVersion]_vars

\* A remove found safeVersion already past the version it deleted: replay had
\* raised it.
C10_Witness ==
    /\ removedMax >= 1
    /\ ReplayedSafeVersion > removedMax + 1
    /\ safeVersion = ReplayedSafeVersion

\* C11: rejectOperation gives, for every version and every combination of
\* rules, the status of the decision table: for VERSION_NONEXISTENT,
\* OBJECT_DOESNT_EXIST when doesntExist is set and OK otherwise; for a
\* version that exists, OBJECT_EXISTS when exists is set, else WRONG_VERSION
\* when versionLeGiven and version <= givenVersion, else WRONG_VERSION when
\* versionNeGiven and version # givenVersion, else OK.  Writes, reads and
\* removes with reject rules return that status for the version they found.
C11_RejectTable ==
    LET Table(rr, n) ==
            IF n = VERSION_NONEXISTENT
            THEN (IF rr.doesntExist THEN "OBJECT_DOESNT_EXIST" ELSE "OK")
            ELSE CASE rr.exists -> "OBJECT_EXISTS"
                   [] ~rr.exists /\ rr.versionLeGiven /\ n <= rr.givenVersion
                        -> "WRONG_VERSION"
                   [] ~rr.exists /\ ~(rr.versionLeGiven /\ n <= rr.givenVersion)
                      /\ rr.versionNeGiven /\ n # rr.givenVersion
                        -> "WRONG_VERSION"
                   [] OTHER -> "OK"
    IN  \A rr \in AllRules \ {NullRules} :
           /\ \A n \in 0..(MaxSafe + 1) : RejectOperation(rr, n) = Table(rr, n)
           /\ \A k \in Keys : \A cur \in Lookup(k) :
                 /\ WriteOutcome(k, "x", rr, TRUE, cur, "intended").status
                       = Table(rr, CurrentVersion(cur))
                 /\ RemoveOutcome(k, rr, TRUE, cur).status
                       = Table(rr, CurrentVersion(cur))
                 /\ cur.found =>
                       ReadResult(k, rr, cur).status = Table(rr, cur.version)

\* A key holds an object of version 2, and a write with versionLeGiven and a
\* given version of 2 is rejected while one with a given version of 1 is not.
C11_Witness ==
    \E k \in Keys : \E cur \in Lookup(k) :
        /\ cur.found /\ cur.version = 2
        /\ WriteOutcome(k, "x", Rules(FALSE, 2, FALSE, FALSE, TRUE, FALSE),
                        TRUE, cur, "intended").status = "WRONG_VERSION"
        /\ WriteOutcome(k, "x", Rules(FALSE, 1, FALSE, FALSE, TRUE, FALSE),
                        TRUE, cur, "intended").status = "OK"

\* C12: readObject, writeObject and removeObject return UNKNOWN_TABLET
\* exactly when the key's tablet is absent or in a state other than NORMAL
\* (RECOVERING included), and such a call leaves the index, the log and
\* safeVersion as they were.
C12_UnknownTablet ==
    \A k \in Keys : \A cur \in Lookup(k) :
        LET unknown == tablets[TableOf(k)] \in {"ABSENT", "RECOVERING"}
            Untouched(o) ==
                o.index = index /\ o.log = log /\ o.safeVersion = safeVersion
        IN  /\ \A ok \in BOOLEAN : \A ub \in WildCall(cur) :
                 LET o == WriteOutcome(k, "x", NullRules, ok, cur, ub)
                 IN  /\ o.status = "UNKNOWN_TABLET" <=> unknown
                     /\ unknown => Untouched(o)
            /\ \A ok \in BOOLEAN :
                 LET o == RemoveOutcome(k, NullRules, ok, cur)
                 IN  /\ o.status = "UNKNOWN_TABLET" <=> unknown
                     /\ unknown => Untouched(o)
            /\ ReadResult(k, NullRules, cur).status = "UNKNOWN_TABLET"
                  <=> unknown

\* An object was written to a tablet that is now being recovered, and a read,
\* a write and a remove of its key are answered with UNKNOWN_TABLET.
C12_Witness ==
    \E k \in Keys : \E cur \in Lookup(k) :
        /\ tablets[TableOf(k)] = "RECOVERING"
        /\ cur.found /\ cur.type = "OBJ"
        /\ WriteOutcome(k, "x", NullRules, TRUE, cur, "intended").status
              = "UNKNOWN_TABLET"
        /\ RemoveOutcome(k, NullRules, TRUE, cur).status = "UNKNOWN_TABLET"
        /\ ReadResult(k, NullRules, cur).status = "UNKNOWN_TABLET"

\* C13: in every reachable state, under any interleaving of writes, removes,
\* replaySegment calls, cleaner relocation and reclamation, poller polls and
\* orphan removal, every reference the index holds resolves to an entry of
\* the log that exists and is an OBJECT or a TOMBSTONE of the key it is
\* indexed under.
C13_IndexIntegrity ==
    \A k \in Keys :
        index[k] # 0 =>
            /\ index[k] \in DOMAIN log
            /\ SegmentExists(log[index[k]].seg)
            /\ log[index[k]].type \in {"OBJ", "TOMB"}
            /\ log[index[k]].key = k

\* The state C13 is refuted in: recovery is over and every tablet is NORMAL;
\* the cleaner has reclaimed the segment of a replayed tombstone that the
\* index still refers to.
C13_Reclaimed ==
    \E k \in Keys :
        /\ Settled
        /\ cleanSeg = 0
        /\ index[k] # 0
        /\ log[index[k]].type = "TOMB"
        /\ log[index[k]].seg \in gone

\* C14: while replaySegment is never called, no reachable state has an index
\* entry that refers to a TOMBSTONE; a remove that deletes an object appends
\* the object's tombstone to the log and leaves the key absent from the
\* index.
C14_TombstonesOnlyByReplay ==
    \A k \in Keys :
        /\ index[k] # 0 => log[index[k]].type = "OBJ"
        /\ \A cur \in Lookup(k) : ~(cur.found /\ cur.type = "TOMB")
        /\ expect[k] = Removed => index[k] = 0
        /\ \A rr \in ClientRules : \A cur \in Lookup(k) :
              LET o == RemoveOutcome(k, rr, TRUE, cur)
              IN  Deleted(o, cur) =>
                     /\ Len(o.log) = Len(log) + 1
                     /\ o.log[Len(o.log)].type = "TOMB"
                     /\ o.log[Len(o.log)].key = k
                     /\ o.log[Len(o.log)].version = cur.version
                     /\ o.index[k] = 0

\* A remove has deleted an object: its tombstone is in the log and its key
\* is not in the index.
C14_Witness ==
    \E k \in Keys : \E r \in DOMAIN log :
        /\ replaySegmentReturnCount = 0
        /\ expect[k] = Removed
        /\ log[r].type = "TOMB" /\ log[r].key = k
        /\ index[k] = 0

\* With clients alone the log is the history of a key: every write that
\* returned OK left an OBJECT (followed by the tombstone of the object it
\* overwrote), every remove that deleted left a TOMBSTONE on its own.
WritesOf(k) == {i \in DOMAIN log : log[i].type = "OBJ" /\ log[i].key = k}
RemovesOf(k) ==
    {i \in DOMAIN log :
        /\ log[i].type = "TOMB" /\ log[i].key = k
        /\ ~(i > 1 /\ log[i - 1].type = "OBJ" /\ log[i - 1].key = k
                   /\ log[i - 1].version = log[i].version + 1)}
\* The writes of k that returned OK after position i, up to position j.
WritesBetween(k, i, j) == {w \in WritesOf(k) : i < w /\ w <= j}
\* No remove of k took effect after position i and before position j.
NoRemoveBetween(k, i, j) == \A r \in RemovesOf(k) : ~(i < r /\ r < j)
\* The places after which k was absent: the start, and every remove of k.
AbsentAfter(k) == {0} \cup RemovesOf(k)

\* C15 as stated: for writes of one key with no remove among them, whatever
\* the key's state before them (present, or absent with version
\* VERSION_NONEXISTENT), the key's version after them minus its version
\* before them is the number of them that returned OK.
C15_VersionCountsWrites ==
    \A k \in Keys : \A j \in WritesOf(k) :
        /\ \A i \in WritesOf(k) :
              i < j /\ NoRemoveBetween(k, i, j) =>
                 log[j].version - log[i].version
                    = Cardinality(WritesBetween(k, i, j))
        /\ \A i \in AbsentAfter(k) :
              i < j /\ NoRemoveBetween(k, i, j) =>
                 log[j].version - VERSION_NONEXISTENT
                    = Cardinality(WritesBetween(k, i, j))

\* C15, amended: for writes of one key with no remove among them, when the
\* key was present before them its version after them minus its version
\* before them is the number of them that returned OK, and a write that does
\* not return OK leaves the version alone; when the key was absent, the first
\* of them to return OK gives the key the version the allocator hands out
\* (safeVersion, which is 1 only until the first allocation or remove), and
\* every later one adds one.
C15_VersionCountsUpdates ==
    /\ [](\A k \in Keys : \A j \in WritesOf(k) :
            /\ \A i \in WritesOf(k) :
                  i < j /\ NoRemoveBetween(k, i, j) =>
                     log[j].version - log[i].version
                        = Cardinality(WritesBetween(k, i, j))
            /\ \A i \in AbsentAfter(k) :
                  i < j /\ NoRemoveBetween(k, i, j) =>
                     log[j].version - VERSION_NONEXISTENT
                        >= Cardinality(WritesBetween(k, i, j)))
    /\ [][\A k \in Keys :
            LET before == IF index[k] = 0 THEN VERSION_NONEXISTENT
                          ELSE log[index[k]].version
                after == IF index'[k] = 0 THEN VERSION_NONEXISTENT
                         ELSE log'[index'[k]].version
                wrote == WritesOf(k)' # WritesOf(k)
                removed == RemovesOf(k)' # RemovesOf(k)
            IN  /\ wrote /\ before # VERSION_NONEXISTENT => after = before + 1
                /\ wrote /\ before = VERSION_NONEXISTENT => after = safeVersion
                /\ ~wrote /\ ~removed => after = before]_vars

\* Two writes of a key returned OK with no remove between them, the first
\* when the key was absent and safeVersion was past 1.
C15_Witness ==
    \E k \in Keys : \E i, j \in WritesOf(k) :
        /\ i < j /\ NoRemoveBetween(k, 0, j)
        /\ WritesBetween(k, 0, j) = {i, j}
        /\ log[i].version > 1
        /\ index[k] = j

\* The versions of the objects of key k that removeObject deleted.
RemovedVersions(k) == {log[r].version : r \in RemovesOf(k)}
\* The replayed object that the index holds for key k, if it holds one.
ReplayedInIndex(k) ==
    IF index[k] # 0 /\ log[index[k]].type = "OBJ" /\ log[index[k]].value = "y"
    THEN {log[index[k]]} ELSE {}

\* C16 as stated (scenario S5): once removeObject has deleted the object of
\* version n of a key, the min-successor replaySegment computes for the key
\* is n + 1, so a replayed OBJECT of version n is discarded: the index never
\* refers to it and no read returns it.
C16_RemovedStaysDiscarded ==
    \A k \in Keys :
        /\ expect[k] = Removed /\ index[k] = 0 =>
              \A cur \in Lookup(k) : \A n \in RemovedVersions(k) :
                  ObjectMinSuccessor(cur) >= n + 1
        /\ \A e \in ReplayedInIndex(k) : e.version \notin RemovedVersions(k)

\* C16, amended: removeObject leaves the key absent from the index, so while
\* nothing has been written or replayed for the key since, replaySegment
\* finds no entry and computes min-successor 0, whatever version was removed;
\* and an object that replay installed is what readObject returns once the
\* tablet is NORMAL, with the version and the value the segment carried.
C16_RemovedIsReplayed ==
    \A k \in Keys :
        /\ expect[k] = Removed /\ index[k] = 0 =>
              \A cur \in Lookup(k) : ObjectMinSuccessor(cur) = 0
        /\ \A e \in ReplayedInIndex(k) : \A cur \in Lookup(k) :
              tablets[TableOf(k)] = "NORMAL" =>
                 ReadResult(k, NullRules, cur) = Ret("OK", e.version, "y")

\* The object of version 2 of key a was removed; a recovery segment then
\* brought OBJECT(a, version 2), the tablet is NORMAL again and a read of a
\* returns the replayed object.
C16_Witness ==
    /\ expect["a"] = Removed
    /\ 2 \in RemovedVersions("a")
    /\ tablets[TableOf("a")] = "NORMAL"
    /\ replaySegmentReturnCount >= 1
    /\ \E cur \in Lookup("a") : ReadResult("a", NullRules, cur) = Ret("OK", 2, "y")

\* C17: a write that returns OK for a key whose index entry is an OBJECT of
\* version p returns p + 1 and leaves safeVersion as it was; a write draws
\* its version from the allocator only when the key has no indexed OBJECT,
\* and then gets the current safeVersion, which goes up by one and starts
\* at 1.
C17_UpdateVersion ==
    /\ allocated = 0 /\ removedMax = 0 /\ ReplayedSafeVersion = 0
          => safeVersion = 1
    /\ \A k \in Keys : \A ok \in BOOLEAN :
       \A cur \in Lookup(k) : \A ub \in WildCall(cur) :
          LET o == WriteOutcome(k, "x", NullRules, ok, cur, ub)
              object == cur.found /\ cur.type = "OBJ"
          IN  /\ object /\ o.status = "OK" =>
                    o.version = cur.version + 1 /\ o.safeVersion = safeVersion
              /\ o.safeVersion # safeVersion =>
                    ~object /\ o.safeVersion = safeVersion + 1
              /\ ~object /\ o.status = "OK" =>
                    o.version = safeVersion /\ o.safeVersion = safeVersion + 1

\* Replay left an object of version 1, or a tombstone that a write then
\* replaced by an object, and a client has written the key since: the
\* client's object has the version after the one it overwrote, and
\* safeVersion is not past it as it would be had the allocator issued it.
C17_Witness ==
    \E k \in Keys : \E cur \in Lookup(k) :
        /\ replaySegmentReturnCount >= 1
        /\ cur.found /\ cur.type = "OBJ" /\ cur.value = "x"
        /\ cur.version = 2
        /\ safeVersion <= cur.version
        /\ WriteOutcome(k, "x", NullRules, TRUE, cur, "intended").version = 3

\* The write of key k that left the object at position i overwrote the object
\* at position j: no write and no remove of k came between them.
Overwrote(k, i, j) ==
    /\ i \in WritesOf(k) /\ j \in WritesOf(k) /\ j < i
    /\ WritesBetween(k, j, i - 1) = {}
    /\ NoRemoveBetween(k, j, i)

\* C18: a write that overwrites an indexed OBJECT appends the new OBJECT and
\* the TOMBSTONE of the old one as one unit: in the log, and in the prefix of
\* it that has been made durable, the new OBJECT is followed at once by that
\* TOMBSTONE and never stands without it; the tombstone carries the version
\* of the overwritten object and the id of the segment that held it.  A
\* write that creates a key appends the OBJECT alone.
C18_ObjectAndTombstoneTogether ==
    /\ \A m \in {Len(log), synced} : \A k \in Keys : \A i, j \in 1..m :
          Overwrote(k, i, j) =>
             /\ i + 1 <= m
             /\ log[i + 1].type = "TOMB" /\ log[i + 1].key = k
             /\ log[i + 1].version = log[j].version
             /\ log[i + 1].tseg = log[j].seg
    /\ \A k \in Keys : \A cur \in Lookup(k) : \A ub \in WildCall(cur) :
          LET o == WriteOutcome(k, "x", NullRules, TRUE, cur, ub)
              n == Len(log)
          IN  o.status = "OK" =>
                 /\ o.log[n + 1].type = "OBJ" /\ o.log[n + 1].key = k
                 /\ IF cur.found /\ cur.type = "OBJ"
                    THEN /\ Len(o.log) = n + 2
                         /\ o.log[n + 2].type = "TOMB" /\ o.log[n + 2].key = k
                         /\ o.log[n + 2].version = cur.version
                         /\ o.log[n + 2].tseg = log[cur.ref].seg
                    ELSE Len(o.log) = n + 1

\* A write has overwritten an object since the last sync: the log holds the
\* new object and the tombstone, the durable prefix neither.
C18_Witness ==
    \E k \in Keys : \E i, j \in DOMAIN log :
        /\ Overwrote(k, i, j)
        /\ synced = i - 1
        /\ Len(log) = i + 1
        /\ index[k] = i

\* C19: replaySegment installs a replayed OBJECT of version v (appends it to
\* the side log and makes the index refer to it) iff the key is absent or v
\* is greater than the version of the indexed entry, OBJECT or TOMBSTONE; it
\* installs a replayed TOMBSTONE of version v iff the key is absent, or the
\* indexed entry is a TOMBSTONE of a version below v, or it is an OBJECT of
\* version v or less.  An entry it rejects changes neither the index nor the
\* side log; the reference of a superseded OBJECT is freed, that of a
\* superseded TOMBSTONE never.
C19_ReplayAcceptance ==
    /\ [](\A k \in Keys : \A cur \in Lookup(k) : \A v \in 0..(MaxVersion + 1) :
            /\ v >= ObjectMinSuccessor(cur)
                  <=> (~cur.found \/ v > cur.version)
            /\ v >= TombstoneMinSuccessor(cur)
                  <=> \/ ~cur.found
                      \/ cur.type = "TOMB" /\ cur.version < v
                      \/ cur.type = "OBJ" /\ cur.version <= v
            /\ FreeCurrentEntry(cur) <=> (cur.found /\ cur.type = "OBJ"))
    /\ [][\A k \in Keys : \A cur \in Lookup(k) :
            LET n == Len(log)
                e == log'[n + 1]
                rest == [i \in 1..n |-> log'[i]]
            IN  IF Len(log') > n /\ e.type \in {"OBJ", "TOMB"} /\ e.key = k
                THEN /\ Len(log') = n + 1
                     /\ index'[k] = n + 1
                     /\ e.type = "OBJ" => ~cur.found \/ e.version > cur.version
                     /\ e.type = "TOMB" =>
                           \/ ~cur.found
                           \/ cur.type = "TOMB" /\ cur.version < e.version
                           \/ cur.type = "OBJ" /\ cur.version <= e.version
                     /\ rest = IF cur.found /\ cur.type = "OBJ"
                               THEN Free(log, cur.ref) ELSE log
                ELSE /\ index'[k] = index[k]
                     /\ Len(log') = n => log' = log]_vars

\* Replay installed a tombstone over an object of the same version and freed
\* the object, then a tombstone of a higher version over that tombstone,
\* which it did not free.
C19_Witness ==
    \E k \in Keys : \E i, j, t \in DOMAIN log :
        /\ i < j /\ j < t
        /\ log[i].type = "OBJ" /\ log[i].key = k /\ log[i].freed
        /\ log[j].type = "TOMB" /\ log[j].key = k /\ ~log[j].freed
        /\ log[j].version = log[i].version
        /\ log[t].type = "TOMB" /\ log[t].key = k
        /\ log[t].version > log[j].version
        /\ index[k] = t

\* A step in which replaySegment is entered, and one in which it returns.
Entered == replayActive = 0 /\ replayActive' # 0
Exited == replayActive # 0 /\ replayActive' = 0

\* C20 as stated: replaySegmentReturnCount goes up by one when replaySegment
\* is entered and by one again when it returns, whatever the return path,
\* and never goes down.
C20_CountedOnEntryAndExit ==
    [][/\ Entered => replaySegmentReturnCount' = replaySegmentReturnCount + 1
       /\ Exited => replaySegmentReturnCount' = replaySegmentReturnCount + 1
       /\ replaySegmentReturnCount' >= replaySegmentReturnCount]_vars

\* C20, amended: replaySegmentReturnCount goes up by one when replaySegment
\* returns, whatever the return path, and at no other step: entering
\* replaySegment and replaying an entry leave it as it is.  It never goes
\* down, and each completed call advances it by exactly one.
C20_CountedOnExit ==
    [][/\ Exited => replaySegmentReturnCount' = replaySegmentReturnCount + 1
       /\ ~Exited => replaySegmentReturnCount' = replaySegmentReturnCount
       /\ replaySegmentReturnCount' >= replaySegmentReturnCount]_vars

\* replaySegment has been entered twice and has returned once, having
\* replayed an entry: the counter stands at 1.
C20_Witness ==
    /\ replayActive # 0
    /\ replaySegmentReturnCount = 1
    /\ Len(log) >= 1

\* A step in which the poller swept a bucket.
Swept == currentBucket' # currentBucket

\* C21: a sweep of a bucket by the poller removes an index entry iff the
\* entry refers to a TOMBSTONE whose tablet is not owned or is in a state
\* other than RECOVERING; it leaves entries that refer to an OBJECT, and the
\* tombstones of an owned RECOVERING tablet, as they are, and changes
\* nothing in the log.
C21_SweepRemovesDeadTombstones ==
    [][Swept =>
         /\ log' = log
         /\ \A k \in Keys :
               LET dead == /\ k \in KeysIn(currentBucket)
                           /\ index[k] # 0
                           /\ log[index[k]].type = "TOMB"
                           /\ tablets[TableOf(k)] \in {"ABSENT", "NORMAL"}
               IN  index'[k] = IF dead THEN 0 ELSE index[k]]_vars

\* The poller has swept away the tombstone of a key whose tablet is no
\* longer RECOVERING; the tombstone is still in the log, not freed.
C21_Witness ==
    \E r \in DOMAIN log :
        /\ log[r].type = "TOMB" /\ ~log[r].freed
        /\ index[log[r].key] = 0
        /\ tablets[TableOf(log[r].key)] # "RECOVERING"
        /\ currentBucket # 0 \/ passes >= 1

\* Entries x and y are copies of one object.
SameObject(x, y) ==
    /\ x.type = "OBJ" /\ y.type = "OBJ"
    /\ x.key = y.key /\ x.value = y.value /\ x.version = y.version

\* C22: relocate of an OBJECT whose tablet is owned changes the index in one
\* way only: when the index refers to the very entry being cleaned and the
\* relocator's append succeeds, the reference of the key becomes that of the
\* new copy, which has the key, value and version of the old one; when the
\* entry is a stale copy, the key is absent or the append fails, the index
\* and the log stay as they are.
C22_RelocateObjectFrame ==
    /\ [](\A r \in cleanTodo : \A ok, assertions \in BOOLEAN :
          \A cur \in Lookup(log[r].key) :
             LET k == log[r].key
                 o == RelocateObjectOutcome(r, ok, assertions, cur)
             IN  log[r].type = "OBJ" /\ tablets[TableOf(k)] # "ABSENT" =>
                    /\ ~o.aborted
                    /\ o.copied <=> (index[k] = r /\ ok)
                    /\ o.copied =>
                          /\ o.index = [index EXCEPT ![k] = Len(log) + 1]
                          /\ SameObject(Relocated(r), log[r])
                    /\ ~o.copied => o.index = index)
    /\ [][CleanerStep =>
            /\ \A k \in Keys :
                  index'[k] # index[k] =>
                     /\ index[k] \in cleanTodo /\ index[k] \notin cleanTodo'
                     /\ Len(log') = Len(log) + 1
                     /\ index'[k] = Len(log')
                     /\ SameObject(log'[index'[k]], log[index[k]])
            /\ Len(log') > Len(log) /\ log'[Len(log')].type = "OBJ" =>
                  index'[log'[Len(log')].key] = Len(log')
            /\ \A i \in DOMAIN log : log'[i] = log[i]]_vars

\* The cleaner is at work on a segment: it has copied the object the index
\* referred to, and the index refers to the copy; it has left alone an
\* object of the segment whose key is no longer in the index.
C22_Witness ==
    \E k \in Keys : \E i, j, t \in DOMAIN log :
        /\ cleanSeg # 0
        /\ SameObject(log[i], log[t])
        /\ log[i].seg = cleanSeg /\ log[t].seg = survSeg
        /\ log[i].key = k /\ index[k] = t
        /\ log[j].type = "OBJ" /\ log[j].seg = cleanSeg
        /\ j \notin cleanTodo
        /\ index[log[j].key] = 0

\* C23: relocate of an OBJECT whose tablet is no longer owned does not use
\* the relocator and removes the index entry of the object's key if there is
\* one: after the call the index holds no entry for the key, and nothing has
\* been added to the log.
C23_RelocateUnownedObject ==
    /\ [](\A r \in cleanTodo : \A ok, assertions \in BOOLEAN :
          \A cur \in Lookup(log[r].key) :
             LET k == log[r].key
                 o == RelocateObjectOutcome(r, ok, assertions, cur)
             IN  log[r].type = "OBJ" /\ tablets[TableOf(k)] = "ABSENT" =>
                    /\ ~o.copied /\ o.done /\ ~o.aborted
                    /\ o.index = [index EXCEPT ![k] = 0])
    /\ [][\A r \in cleanTodo \ cleanTodo' :
             log[r].type = "OBJ" /\ tablets[TableOf(log[r].key)] = "ABSENT" =>
                /\ log' = log
                /\ index' = [index EXCEPT ![log[r].key] = 0]]_vars

\* The cleaner has been through an object of a tablet the master dropped:
\* the object, which no client removed or overwrote, is no longer indexed.
C23_Witness ==
    \E r \in DOMAIN log :
        /\ cleanSeg # 0 /\ log[r].seg = cleanSeg /\ r \notin cleanTodo
        /\ log[r].type = "OBJ" /\ ~log[r].freed
        /\ tablets[TableOf(log[r].key)] = "ABSENT"
        /\ expect[log[r].key] = Wrote(log[r].value, log[r].version)
        /\ index[log[r].key] = 0
        /\ Len(log) = r + 1

\* Entries x and y are copies of one tombstone.
SameTombstone(x, y) ==
    /\ x.type = "TOMB" /\ y.type = "TOMB"
    /\ x.key = y.key /\ x.version = y.version /\ x.tseg = y.tseg

C25_OrphansRemoved ==
    /\ [](\A k \in Keys :
             BucketOf(k) < orphanBucket =>
                ~(/\ index[k] # 0 /\ log[index[k]].type = "OBJ"
                  /\ tablets[TableOf(k)] = "ABSENT"))
    /\ [][LET Orphaned(idx, k) ==
                  /\ idx[k] # 0 /\ log[idx[k]].type = "OBJ"
                  /\ tablets[TableOf(k)] = "ABSENT"
          IN  orphanBucket' # orphanBucket =>
                /\ tablets' = tablets
                /\ orphanBucket' = 0 => \A k \in Keys : ~Orphaned(index', k)
                /\ \A k \in Keys :
                      IF Orphaned(index, k) /\ BucketOf(k) = orphanBucket
                      THEN index'[k] = 0 /\ log'[index[k]].freed
                      ELSE index'[k] = index[k]
                /\ Len(log') = Len(log)
                /\ \A r \in DOMAIN log :
                      log'[r] # log[r] =>
                         /\ \E k \in Keys : Orphaned(index, k) /\ index[k] = r
                         /\ log'[r] = [log[r] EXCEPT !.freed = TRUE]]_vars

\* removeOrphanedObjects has been through every bucket: the object of a
\* dropped tablet, which nothing had superseded, is freed and out of the
\* index, and an entry of a tablet the master has is still indexed.
C25_Witness ==
    \E k, t \in Keys : \E r \in DOMAIN log :
        /\ orphanBucket = 0
        /\ tablets[TableOf(k)] = "ABSENT"
        /\ log[r].type = "OBJ" /\ log[r].key = k /\ log[r].freed
        /\ \A i \in DOMAIN log : log[i].key = k => i = r
        /\ index[k] = 0
        /\ tablets[TableOf(t)] # "ABSENT" /\ index[t] # 0

C27_RemoveOrder ==
        /\ [](/\ \A t \in Threads :
                  LET Appended(u) ==
                          /\ threads[u].ref \in DOMAIN log
                          /\ log[threads[u].ref].type = "TOMB"
                          /\ log[threads[u].ref].key = threads[u].key
                          /\ log[threads[u].ref].version
                                = threads[u].cur.version
                      StillIndexed(u) ==
                          /\ index[threads[u].key] = threads[u].cur.ref
                          /\ ~log[threads[u].cur.ref].freed
                  IN
                    /\ At(t, "remove", "appended") =>
                          Appended(t) /\ StillIndexed(t)
                    /\ At(t, "remove", "synced") =>
                          /\ Appended(t) /\ StillIndexed(t)
                          /\ threads[t].ref <= synced
                    /\ At(t, "remove", "raised") =>
                          /\ Appended(t) /\ StillIndexed(t)
                          /\ threads[t].ref <= synced
                          /\ safeVersion >= threads[t].cur.version + 1
              /\ \A k \in Keys :
                    maxIssued[k] > 0 /\ index[k] = 0 =>
                       \E r \in 1..synced :
                          /\ log[r].type = "TOMB" /\ log[r].key = k
                          /\ log[r].version = maxIssued[k])
        /\ [][\A t \in Threads :
                 At(t, "remove", "raised") /\ threads'[t].pc = "idle" =>
                    /\ threads[t].ref <= synced'
                    /\ safeVersion' >= threads[t].cur.version + 1
                    /\ log'[threads[t].cur.ref].freed
                    /\ index'[threads[t].key] = 0]_vars

\* A remove has returned, its tombstone durable and the key out of the index,
\* while another thread's remove has appended its tombstone and not yet
\* synced the log, its key still indexed.
C27_Witness ==
    \E t \in Threads, k \in Keys :
        /\ expect[k] = Removed /\ index[k] = 0
        /\ \E r \in 1..synced : log[r].type = "TOMB" /\ log[r].key = k
        /\ At(t, "remove", "appended")
        /\ threads[t].ref > synced
        /\ index[threads[t].key] # 0

\* C28: read, write and remove do to a key whose index entry refers to a
\* TOMBSTONE what they do to a key that has no index entry: with the same
\* arguments they return the same status and *outVersion and append the same
\* entries; a write over an indexed tombstone appends the new object alone,
\* frees nothing, takes its version from the allocator and leaves the index
\* referring to the new object.
C28_TombstoneAsAbsent ==
    LET SameAnswer(x, y) ==
            /\ x.status = y.status
            /\ x.version = y.version
            /\ x.log = y.log
            /\ x.safeVersion = y.safeVersion
    IN  \A k \in Keys :
            /\ index[k] # 0 /\ Resolves(index[k])
            /\ log[index[k]].type = "TOMB"
            /\ ~aborted
            => \A rr \in ClientRules, ok \in BOOLEAN : \A cur \in Lookup(k) :
                  /\ \A ub \in WildCall(cur) :
                        LET o == WriteOutcome(k, "x", rr, ok, cur, ub)
                            a == WriteOutcome(k, "x", rr, ok, NotFound,
                                              "intended")
                        IN  /\ SameAnswer(o, a)
                            /\ o.aborted = a.aborted
                            /\ o.status = "OK" =>
                                  /\ o.log = Append(log, ObjectEntry(k,
                                                AllocateVersion(safeVersion),
                                                "x", HeadFor(1)))
                                  /\ o.index[k] = Len(log) + 1
                  /\ SameAnswer(RemoveOutcome(k, rr, ok, cur),
                                RemoveOutcome(k, rr, ok, NotFound))
                  /\ ReadResult(k, rr, cur) = ReadResult(k, rr, NotFound)

\* The tablet of a key is NORMAL and the index still refers to a tombstone
\* of the key: a write of the key reaches the call of line 159.
C28_Witness ==
    \E k \in Keys :
        /\ index[k] # 0 /\ Resolves(index[k])
        /\ log[index[k]].type = "TOMB"
        /\ tablets[TableOf(k)] = "NORMAL"
        /\ ~aborted
        /\ \E cur \in Lookup(k) : "abort" \in WildCall(cur)

\* C29: removeObject on a key that has no indexed OBJECT applies the reject
\* rules, all false when none are given, to VERSION_NONEXISTENT: it returns
\* OBJECT_DOESNT_EXIST when doesntExist is set and OK otherwise, so that a
\* second remove of a key returns OK like the first; it appends nothing and
\* changes neither the index nor safeVersion.
C29_RemoveOfAbsent ==
    \A k \in Keys :
        ~PleadsIgnorance(tablets[TableOf(k)]) =>
            \A cur \in Lookup(k) :
                ~(cur.found /\ cur.type = "OBJ") =>
                    \A rr \in AllRules, ok \in BOOLEAN :
                        LET o == RemoveOutcome(k, rr, ok, cur)
                        IN  /\ o.status =
                                  IF ~rr.isNull /\ rr.doesntExist
                                  THEN "OBJECT_DOESNT_EXIST" ELSE "OK"
                            /\ o.log = log
                            /\ o.index = index
                            /\ o.safeVersion = safeVersion
                            /\ o.synced = synced

\* A remove deleted the object of a key; the key has no index entry, and a
\* second remove of it returns OK.
C29_Witness ==
    \E k \in Keys :
        /\ expect[k] = Removed
        /\ index[k] = 0
        /\ tablets[TableOf(k)] = "NORMAL"
        /\ \E r \in DOMAIN log : log[r].type = "TOMB" /\ log[r].key = k
        /\ RemoveOutcome(k, NullRules, TRUE, NotFound).status = "OK"

\* C30: a write, read or remove that its reject rules turn down returns the
\* status of the rule that matched and, in *outVersion, the version of the
\* object indexed for the key (a write of a key that has none returns
\* VERSION_NONEXISTENT); it appends nothing, allocates no version and leaves
\* the object indexed for the key as it is.
C30_RejectedChangesNothing ==
    \A k \in Keys : \A rr \in AllRules, ok \in BOOLEAN : \A cur \in Lookup(k) :
        LET Rejections ==
                {"OBJECT_DOESNT_EXIST", "OBJECT_EXISTS", "WRONG_VERSION"}
            Untouched(o) ==
                /\ o.log = log
                /\ o.safeVersion = safeVersion
                /\ o.synced = synced
                /\ o.head = head /\ o.nsegs = nsegs
            w == WriteOutcome(k, "x", rr, ok, cur, "intended")
            d == RemoveOutcome(k, rr, ok, cur)
            r == ReadResult(k, rr, cur)
            objectFound == cur.found /\ cur.type = "OBJ"
            version == IF objectFound THEN cur.version
                       ELSE VERSION_NONEXISTENT
            rejects == ~rr.isNull /\ ~PleadsIgnorance(tablets[TableOf(k)])
                       /\ RejectOperation(rr, version) # "OK"
        IN  /\ w.status \in Rejections <=> rejects
            /\ d.status \in Rejections <=> rejects
            /\ objectFound => (r.status \in Rejections <=> rejects)
            /\ rejects =>
                  /\ w.status = RejectOperation(rr, version)
                  /\ w.version = version
                  /\ Untouched(w)
                  /\ d.status = RejectOperation(rr, version)
                  /\ Untouched(d)
                  /\ d.index = index
                  /\ objectFound =>
                        /\ w.index = index
                        /\ d.version = cur.version
                        /\ r = Ret(RejectOperation(rr, version), cur.version,
                                   NoValue)

\* An object of version 2 is indexed: a write, a read or a remove whose rules
\* ask for another version is turned down with WRONG_VERSION and version 2.
C30_Witness ==
    \E k \in Keys : \E cur \in Lookup(k) :
        LET rr == Rules(FALSE, 1, FALSE, FALSE, FALSE, TRUE)
        IN  /\ cur.found /\ cur.type = "OBJ" /\ cur.version = 2
            /\ tablets[TableOf(k)] = "NORMAL"
            /\ WriteOutcome(k, "x", rr, TRUE, cur, "intended").status
                  = "WRONG_VERSION"
            /\ RemoveOutcome(k, rr, TRUE, cur).version = 2
            /\ ReadResult(k, rr, cur) = Ret("WRONG_VERSION", 2, NoValue)
\* C31: a write or remove that returns RETRY leaves all that can be observed
\* as it was: the index, the log, what a read of the key returns, and
\* safeVersion, no version being consumed.
C31_RetryChangesNothing ==
    \A k \in Keys : \A ok \in BOOLEAN : \A cur \in Lookup(k) :
        /\ \A ub \in WildCall(cur) :
              LET o == WriteOutcome(k, "x", NullRules, ok, cur, ub)
              IN  o.status = "RETRY" =>
                     /\ o.index = index /\ o.log = log
                     /\ o.safeVersion = safeVersion
        /\ LET d == RemoveOutcome(k, NullRules, ok, cur)
           IN  d.status = "RETRY" =>
                  /\ d.index = index /\ d.log = log
                  /\ d.safeVersion = safeVersion

\* C31, as the code has it: a write or remove that returns RETRY leaves the
\* log, the object indexed for the key and what a read of the key returns as
\* they were; a remove leaves safeVersion too, and so does a write over an
\* indexed object, while a write of a key that has no indexed object has
\* taken one version from the allocator; a tombstone indexed for the key may
\* have left the index.
C31_RetryKeepsObjects ==
    \A k \in Keys : \A ok \in BOOLEAN : \A cur \in Lookup(k) :
        /\ \A ub \in WildCall(cur) :
              LET o == WriteOutcome(k, "x", NullRules, ok, cur, ub)
                  after == IF o.index[k] = 0 THEN NotFound
                           ELSE View(TRUE, o.log[o.index[k]].type,
                                     o.log[o.index[k]].version,
                                     o.log[o.index[k]].value, o.index[k])
              IN  o.status = "RETRY" =>
                     /\ ~ok
                     /\ o.log = log /\ o.synced = synced
                     /\ \A j \in Keys \ {k} : o.index[j] = index[j]
                     /\ o.index[k] \in {index[k], 0}
                     /\ cur.found /\ cur.type = "OBJ" => o.index[k] = index[k]
                     /\ \A rr \in ClientRules :
                           ReadResult(k, rr, after) = ReadResult(k, rr, cur)
                     /\ o.safeVersion =
                           IF cur.found /\ cur.type = "OBJ" THEN safeVersion
                           ELSE safeVersion + 1
        /\ LET d == RemoveOutcome(k, NullRules, ok, cur)
           IN  d.status = "RETRY" =>
                  /\ ~ok
                  /\ d.index = index /\ d.log = log /\ d.synced = synced
                  /\ d.safeVersion = safeVersion

\* The allocator has handed a version to a client's write, and the log holds
\* no object a client wrote: the write returned RETRY.
C31_Witness ==
    /\ allocated > 0
    /\ safeVersion > allocated
    /\ \A r \in DOMAIN log : log[r].value # "x"
    /\ ~aborted
\* C32: the assertion of relocateObject holds: whenever the cleaner hands
\* relocateObject an OBJECT of a tablet the master has and lookup finds an
\* entry for the object's key, the entry is an OBJECT, never a TOMBSTONE.
C32_RelocateAssertHolds ==
    \A r \in cleanTodo :
        /\ ~aborted
        /\ log[r].type = "OBJ"
        /\ tablets[TableOf(log[r].key)] # "ABSENT"
        => \A cur \in Lookup(log[r].key) : cur.found => cur.type = "OBJ"

\* Recovery is over and the tablets are NORMAL; the cleaner is about to hand
\* relocateObject a replayed object whose key the index, its reference
\* resolving, still holds as the tombstone that superseded the object.
C32_Witness ==
    \E r \in cleanTodo :
        /\ ~aborted /\ Settled
        /\ log[r].type = "OBJ"
        /\ index[log[r].key] # 0
        /\ Resolves(index[log[r].key])
        /\ log[index[log[r].key]].type = "TOMB"
        /\ log[index[log[r].key]].version >= log[r].version
\* C33: at every quiescent point (tablets NORMAL, no replaySegment call and
\* no cleaning pass under way, the poller's sweep done) replaying the OBJECT
\* and TOMBSTONE entries of the segments the log still has into an empty index leaves,
\* for every key, the strongest of its entries, and a read of that index
\* gives what a read of the live index gives: the value and version of the
\* object, or absence.
C33_LogRecoverable ==
    Settled /\ cleanSeg = 0 /\ PollerIdle /\ ~aborted =>
        \A k \in Keys :
            LET inLog == {r \in DOMAIN log :
                             /\ SegmentExists(log[r].seg)
                             /\ log[r].key = k
                             /\ log[r].type \in {"OBJ", "TOMB"}}
                top == {r \in inLog : \A q \in inLog : AtLeast(log[r], log[q])}
                recovered ==
                    IF \E r \in top : log[r].type = "OBJ"
                    THEN {Ret("OK", log[r].version, log[r].value) : r \in top}
                    ELSE {Ret("OBJECT_DOESNT_EXIST", Unset, NoValue)}
            IN  ReadResults(k, NullRules) = recovered
\* An object that replay superseded is still in the log, in a segment that
\* exists, no tombstone of its key is, and the index has no entry of the key.
C33_Witness ==
    /\ Settled /\ cleanSeg = 0 /\ PollerIdle /\ ~aborted
    /\ index["a"] = 0
    /\ \E r \in DOMAIN log :
          /\ log[r].type = "OBJ" /\ log[r].key = "a" /\ log[r].freed
          /\ SegmentExists(log[r].seg)
    /\ \A q \in DOMAIN log :
          log[q].type = "TOMB" => ~SegmentExists(log[q].seg)
    /\ \E q \in DOMAIN log : log[q].type = "TOMB" /\ log[q].key = "a"
\* C34: no bucket lock being held, no reference stored in the index has been
\* freed in the log and no tombstone has been freed; a write, remove,
\* replaySegment or removeOrphanedObjects step frees a reference only if it
\* is an OBJECT reference that the index held for its key before the step
\* and does not hold after it.  Each of them frees the reference it found in
\* the index, and a freed reference is not indexed, so none is freed twice.
C34_ReferenceLifetime ==
    /\ []((\A l \in DOMAIN hashTableBucketLocks : Unlocked(l)) =>
             /\ \A k \in Keys : index[k] # 0 => ~log[index[k]].freed
             /\ \A r \in DOMAIN log : log[r].type = "TOMB" => ~log[r].freed)
    /\ [][\A r \in DOMAIN log :
              log'[r].freed /\ ~log[r].freed =>
                  /\ log[r].type = "OBJ"
                  /\ index[log[r].key] = r
                  /\ index'[log[r].key] # r]_vars
\* Objects written by clients and objects recovered by replaySegment have
\* been freed, the index refers to a tombstone, and removeOrphanedObjects
\* has freed an object of a tablet that is ABSENT.
C34_Witness ==
    /\ ~aborted
    /\ \E r \in DOMAIN log : log[r].type = "OBJ" /\ log[r].value = "x" /\ log[r].freed
    /\ \E r \in DOMAIN log : log[r].type = "OBJ" /\ log[r].value = "y" /\ log[r].freed
    /\ \E r \in DOMAIN log : log[r].type = "TOMB"
    /\ tablets[TableOf("a")] = "ABSENT" /\ index["a"] = 0
    /\ log # <<>> /\ log[Len(log)].type = "OBJ" /\ log[Len(log)].freed
====
